---- MODULE Spec2Model ----
(***************************************************************************)
(* A model of vllm/compilation/backends.py: the graph splitter             *)
(* (split_graph), the compilation cache (CompilerManager), the piecewise   *)
(* orchestrator (PiecewiseCompileInterpreter) and the top-level backend    *)
(* (VllmBackend).                                                          *)
(***************************************************************************)
EXTENDS Integers, Sequences, FiniteSets, TLC

(***************************************************************************)
(* Bounds of the model.                                                    *)
(***************************************************************************)
\* longest graph body (nodes between the placeholders and the output) that
\* the splitter is applied to in SpecSplit
MaxNodes == 5

(***************************************************************************)
(* Computation graphs.  A node carries its op kind and its target, as      *)
(* torch.fx nodes do.                                                      *)
(***************************************************************************)
Node(op, target) == [op |-> op, target |-> target]

\* the nodes a graph body is drawn from: call_function nodes of three
\* targets and a call_method whose target carries the name of a splitting op
BodyNodes ==
    { Node("call_function", "add"),
      Node("call_function", "attn"),
      Node("call_function", "all_reduce"),
      Node("call_method", "attn") }

\* the names the configuration may list as splitting ops
SplitOpNames == {"attn", "all_reduce"}

RECURSIVE SeqsUpTo(_, _)
SeqsUpTo(S, n) ==
    IF n = 0 THEN { <<>> }
    ELSE LET shorter == SeqsUpTo(S, n - 1)
         IN  shorter \cup { Append(s, x) : s \in { t \in shorter : Len(t) = n - 1 }, x \in S }

\* an fx graph: its placeholders first, its body, its output last
FxGraph(body) == <<Node("placeholder", "x")>> \o body \o <<Node("output", "output")>>

(***************************************************************************)
(* split_graph                                                             *)
(***************************************************************************)
\* the state of the assignment loop before the first node
SplitLoopInit ==
    [ subgraph_id |-> 0, node_to_subgraph_id |-> <<>>, split_op_graphs |-> <<>> ]

\* a plausible slip: the counter is not incremented after a splitting op
SplitNodeNoGap(st, i, node, ops) ==
    IF node.op \in {"output", "placeholder"} THEN st
    ELSE IF node.op = "call_function" /\ node.target \in ops
    THEN [ subgraph_id |-> st.subgraph_id + 1,
           node_to_subgraph_id |-> st.node_to_subgraph_id @@ (i :> st.subgraph_id + 1),
           split_op_graphs |-> Append(st.split_op_graphs, st.subgraph_id + 1) ]
    ELSE [ st EXCEPT !.node_to_subgraph_id = @ @@ (i :> st.subgraph_id) ]

\* a plausible slip: the op kind of the node is not looked at
SplitNodeAnyOp(st, i, node, ops) ==
    IF node.op \in {"output", "placeholder"} THEN st
    ELSE IF node.target \in ops
    THEN [ subgraph_id |-> st.subgraph_id + 2,
           node_to_subgraph_id |-> st.node_to_subgraph_id @@ (i :> st.subgraph_id + 1),
           split_op_graphs |-> Append(st.split_op_graphs, st.subgraph_id + 1) ]
    ELSE [ st EXCEPT !.node_to_subgraph_id = @ @@ (i :> st.subgraph_id) ]

\* a plausible slip: after a splitting op the partition before it is resumed
SplitNodeResume(st, i, node, ops) ==
    IF node.op \in {"output", "placeholder"} THEN st
    ELSE IF node.op = "call_function" /\ node.target \in ops
    THEN [ subgraph_id |-> st.subgraph_id,
           node_to_subgraph_id |-> st.node_to_subgraph_id @@
                                       (i :> st.subgraph_id + 1 + 2 * Len(st.split_op_graphs)),
           split_op_graphs |-> Append(st.split_op_graphs,
                                      st.subgraph_id + 1 + 2 * Len(st.split_op_graphs)) ]
    ELSE [ st EXCEPT !.node_to_subgraph_id = @ @@ (i :> st.subgraph_id) ]

\* a plausible slip: an id that no node has taken yet is not skipped
SplitNodeDense(st, i, node, ops) ==
    IF node.op \in {"output", "placeholder"} THEN st
    ELSE IF node.op = "call_function" /\ node.target \in ops
    THEN LET used == \E j \in DOMAIN st.node_to_subgraph_id :
                         st.node_to_subgraph_id[j] = st.subgraph_id
             id   == IF used THEN st.subgraph_id + 1 ELSE st.subgraph_id
         IN  [ subgraph_id |-> id + 1,
               node_to_subgraph_id |-> st.node_to_subgraph_id @@ (i :> id),
               split_op_graphs |-> Append(st.split_op_graphs, id) ]
    ELSE [ st EXCEPT !.node_to_subgraph_id = @ @@ (i :> st.subgraph_id) ]

\* one iteration of the loop over graph.graph.nodes; i is the node's position
SplitNode(st, i, node, ops) ==
    IF node.op \in {"output", "placeholder"} THEN st
    ELSE IF node.op = "call_function" /\ node.target \in ops
    THEN [ subgraph_id |-> st.subgraph_id + 2,
           node_to_subgraph_id |-> st.node_to_subgraph_id @@ (i :> st.subgraph_id + 1),
           split_op_graphs |-> Append(st.split_op_graphs, st.subgraph_id + 1) ]
    ELSE [ st EXCEPT !.node_to_subgraph_id = @ @@ (i :> st.subgraph_id) ]

RECURSIVE SplitLoop(_, _, _, _)
SplitLoop(g, ops, i, st) ==
    IF i > Len(g) THEN st
    ELSE SplitLoop(g, ops, i + 1, SplitNode(st, i, g[i], ops))

\* the assignment of nodes to partitions, and the ids of the splitting partitions
AssignSubgraphs(g, ops) == SplitLoop(g, ops, 1, SplitLoopInit)

\* the partition ids in use
PartitionIds(assign) == { assign[i] : i \in DOMAIN assign }

\* the positions of the nodes of partition id, in original order
RECURSIVE NodesOf(_, _, _)
NodesOf(assign, id, i) ==
    IF i = 0 THEN <<>>
    ELSE IF i \in DOMAIN assign /\ assign[i] = id
         THEN Append(NodesOf(assign, id, i - 1), i)
         ELSE NodesOf(assign, id, i - 1)

\* the partition ids in the order in which their first node occurs
RECURSIVE IdsInOrder(_, _)
IdsInOrder(assign, i) ==
    IF i = 0 THEN <<>>
    ELSE LET before == IdsInOrder(assign, i - 1)
         IN  IF i \in DOMAIN assign /\ ~ \E k \in 1..Len(before) : before[k] = assign[i]
             THEN Append(before, assign[i])
             ELSE before

\* a module name: "submod_<id>" is the pair of its prefix and its number;
\* the root module is named ""
SubmodName(id) == <<"submod_", id>>
RootName == <<"", 0>>

\* torch.fx split_module with keep_original_order=True: one child module per
\* partition id in use, registered in original order and called in that
\* order by the stitching module, each holding its nodes in original order
SplitModule(g, assign) ==
    LET ids == IdsInOrder(assign, Len(g))
    IN  [ names   |-> <<RootName>> \o [k \in 1..Len(ids) |-> SubmodName(ids[k])],
          modules |-> [id \in PartitionIds(assign) |-> NodesOf(assign, id, Len(g))],
          calls   |-> [k \in 1..Len(ids) |-> SubmodName(ids[k])] ]

\* int(name.replace("submod_", ""))
GraphIdOfName(name) == name[2]

InSeq(x, s) == \E k \in 1..Len(s) : s[k] = x

SplitItem(submod_name, graph_id, is_splitting_graph, module) ==
    [ submod_name |-> submod_name, graph_id |-> graph_id,
      is_splitting_graph |-> is_splitting_graph, graph |-> module ]

\* a plausible slip: outputs are left in the order of their names
SortByGraphIdUnsorted(items) == items

\* outputs.sort(key=lambda x: x.graph_id): a stable insertion sort
RECURSIVE InsertByGraphId(_, _)
InsertByGraphId(sorted, item) ==
    IF sorted = <<>> THEN <<item>>
    ELSE IF sorted[Len(sorted)].graph_id <= item.graph_id
         THEN Append(sorted, item)
         ELSE Append(InsertByGraphId(SubSeq(sorted, 1, Len(sorted) - 1), item),
                     sorted[Len(sorted)])

RECURSIVE SortPrefix(_, _)
SortPrefix(items, n) ==
    IF n = 0 THEN <<>> ELSE InsertByGraphId(SortPrefix(items, n - 1), items[n])

SortByGraphId(items) == SortPrefix(items, Len(items))

\* a plausible slip: the test for a splitting graph is inverted
RECURSIVE CollectItemsInverted(_, _, _, _)
CollectItemsInverted(names, modules, split_op_graphs, n) ==
    IF n = 0 THEN <<>>
    ELSE LET rest == CollectItemsInverted(names, modules, split_op_graphs, n - 1)
             name == names[n]
         IN  IF name[1] = "" THEN rest
             ELSE Append(rest,
                         SplitItem(name, GraphIdOfName(name),
                                   ~ InSeq(GraphIdOfName(name), split_op_graphs),
                                   modules[GraphIdOfName(name)]))

\* the loop over split_gm.named_modules(): the root and nested modules are
\* skipped, every other module yields a SplitItem
RECURSIVE CollectItems(_, _, _, _)
CollectItems(names, modules, split_op_graphs, n) ==
    IF n = 0 THEN <<>>
    ELSE LET rest == CollectItems(names, modules, split_op_graphs, n - 1)
             name == names[n]
         IN  IF name[1] = "" THEN rest
             ELSE Append(rest,
                         SplitItem(name, GraphIdOfName(name),
                                   InSeq(GraphIdOfName(name), split_op_graphs),
                                   modules[GraphIdOfName(name)]))

\* split_graph(graph, ops): the stitching module and the ordered split items
split_graph(g, ops) ==
    LET a        == AssignSubgraphs(g, ops)
        split_gm == SplitModule(g, a.node_to_subgraph_id)
        outputs  == CollectItems(split_gm.names, split_gm.modules,
                                 a.split_op_graphs, Len(split_gm.names))
    IN  [ node_to_subgraph_id |-> a.node_to_subgraph_id,
          split_op_graphs     |-> a.split_op_graphs,
          split_gm            |-> split_gm,
          outputs             |-> SortByGraphId(outputs) ]

(***************************************************************************)
(* Python literal values, as the cache mapping holds them: None, ints,     *)
(* strings, tuples and dicts, each tagged with its type.                   *)
(***************************************************************************)
PyNone      == [t |-> "none"]
PyInt(n)    == [t |-> "int", i |-> n]
PyStr(s)    == [t |-> "str", s |-> s]
PyTuple(es) == [t |-> "tuple", e |-> es]
PyDict(f)   == [t |-> "dict", d |-> f]

EmptyMap == [k \in {} |-> PyNone]

\* the cache key (runtime_shape, graph_index, backend_name); runtime_shape
\* is None or an int
CacheKey(runtime_shape, graph_index, name) ==
    PyTuple(<<runtime_shape, PyInt(graph_index), PyStr(name)>>)

(***************************************************************************)
(* The text of the cache file, as the sequence of its tokens.              *)
(***************************************************************************)
Punct(s)  == [k |-> "punct", s |-> s]
TNum(n)   == [k |-> "num", i |-> n]
TStr(s)   == [k |-> "string", s |-> s]
TName(s)  == [k |-> "name", s |-> s]

\* the strings that occur in cache keys, in alphabetical order
SortedStrings == <<"eager", "inductor", "inductor_standalone">>
StrIndex(s) == CHOOSE k \in 1..Len(SortedStrings) : SortedStrings[k] = s

\* Python's a < b on literal values: "lt", "eq" or "gt", and "err" where
\* Python raises TypeError (None or values of different types)
RECURSIVE PyCompare(_, _)
PyCompare(a, b) ==
    IF a.t # b.t THEN "err"
    ELSE CASE a.t = "int" -> IF a.i < b.i THEN "lt" ELSE IF a.i = b.i THEN "eq" ELSE "gt"
           [] a.t = "str" -> IF a.s = b.s THEN "eq"
                             ELSE IF StrIndex(a.s) < StrIndex(b.s) THEN "lt" ELSE "gt"
           [] a.t = "tuple" ->
                LET differ == { k \in 1..Len(a.e) : k <= Len(b.e) /\ a.e[k] # b.e[k] }
                IN  IF differ = {}
                    THEN IF Len(a.e) < Len(b.e) THEN "lt"
                         ELSE IF Len(a.e) = Len(b.e) THEN "eq" ELSE "gt"
                    ELSE LET k == CHOOSE x \in differ : \A y \in differ : x <= y
                         IN  PyCompare(a.e[k], b.e[k])
           [] OTHER -> "err"

\* the keys in ascending order, for keys that Python can compare
RECURSIVE SortedKeys(_)
SortedKeys(keys) ==
    IF keys = {} THEN <<>>
    ELSE LET least == CHOOSE k \in keys :
                          \A o \in keys \ {k} : PyCompare(k, o) = "lt"
         IN  <<least>> \o SortedKeys(keys \ {least})

RECURSIVE Permutations_(_)
Permutations_(keys) ==
    IF keys = {} THEN { <<>> }
    ELSE UNION { { <<k>> \o rest : rest \in Permutations_(keys \ {k}) } : k \in keys }

\* the orders in which pprint may list the entries of a dict: it sorts them
\* by key, and where two keys cannot be compared it falls back on the
\* objects' addresses, so that any order may come out
KeyOrders(keys) ==
    IF \A a \in keys : \A b \in keys \ {a} : PyCompare(a, b) \in {"lt", "gt"}
    THEN { SortedKeys(keys) }
    ELSE Permutations_(keys)

\* repr of a literal value other than a dict
RECURSIVE Repr(_)
Repr(v) ==
    CASE v.t = "none" -> <<TName("None")>>
      [] v.t = "int"  -> IF v.i < 0 THEN <<Punct("-"), TNum(-v.i)>> ELSE <<TNum(v.i)>>
      [] v.t = "str"  -> <<TStr(v.s)>>
      [] v.t = "tuple" ->
           LET Elems[n \in 0..Len(v.e)] ==
                   IF n = 0 THEN <<>>
                   ELSE IF n = 1 THEN Repr(v.e[1])
                   ELSE Elems[n - 1] \o <<Punct(",")>> \o Repr(v.e[n])
           IN  <<Punct("(")>> \o Elems[Len(v.e)]
                   \o (IF Len(v.e) = 1 THEN <<Punct(",")>> ELSE <<>>)
                   \o <<Punct(")")>>

\* a plausible slip: the values of the mapping are left out of the text
ReprEntryKeyOnly(f, key) == Repr(key) \o <<Punct(":")>> \o Repr(PyNone)

\* one "key: value" entry of the printed dict
ReprEntry(f, key) == Repr(key) \o <<Punct(":")>> \o Repr(f[key])

\* pprint.PrettyPrinter.pformat of the dict f, its entries in the given order
PFormat(f, order) ==
    LET Entries[n \in 0..Len(order)] ==
            IF n = 0 THEN <<>>
            ELSE IF n = 1 THEN ReprEntry(f, order[1])
            ELSE Entries[n - 1] \o <<Punct(",")>> \o ReprEntry(f, order[n])
    IN  <<Punct("{")>> \o Entries[Len(order)] \o <<Punct("}")>>

\* every text pformat may produce for the dict f
Renderings(f) == { PFormat(f, order) : order \in KeyOrders(DOMAIN f) }

(***************************************************************************)
(* ast.literal_eval: a parser of literals alone.                           *)
(***************************************************************************)
ParseErr == [ok |-> FALSE, v |-> PyNone, next |-> 0]
ParseOk(v, next) == [ok |-> TRUE, v |-> v, next |-> next]

IsTok(ts, i, tok) == i <= Len(ts) /\ ts[i] = tok

RECURSIVE ParseValue(_, _), ParseTuple(_, _, _, _), ParseDict(_, _, _)

\* a literal starting at token i
ParseValue(ts, i) ==
    IF i > Len(ts) THEN ParseErr
    ELSE LET tk == ts[i]
         IN  CASE tk.k = "name"   -> IF tk.s = "None" THEN ParseOk(PyNone, i + 1)
                                     ELSE ParseErr
               [] tk.k = "num"    -> ParseOk(PyInt(tk.i), i + 1)
               [] tk.k = "string" -> ParseOk(PyStr(tk.s), i + 1)
               [] tk.k = "punct"  ->
                    IF tk.s = "-"
                    THEN IF i + 1 <= Len(ts) /\ ts[i + 1].k = "num"
                         THEN ParseOk(PyInt(- ts[i + 1].i), i + 2)
                         ELSE ParseErr
                    ELSE IF tk.s = "(" THEN ParseTuple(ts, i + 1, <<>>, FALSE)
                    ELSE IF tk.s = "{" THEN ParseDict(ts, i + 1, EmptyMap)
                    ELSE ParseErr
               [] OTHER -> ParseErr

\* the rest of a parenthesised form: () is the empty tuple, (v) is v, and a
\* comma makes a tuple
ParseTuple(ts, i, acc, comma) ==
    IF IsTok(ts, i, Punct(")"))
    THEN IF acc = <<>> /\ comma THEN ParseErr
         ELSE ParseOk(PyTuple(acc), i + 1)
    ELSE LET r == ParseValue(ts, i)
         IN  IF ~ r.ok THEN ParseErr
             ELSE IF IsTok(ts, r.next, Punct(","))
                  THEN ParseTuple(ts, r.next + 1, Append(acc, r.v), TRUE)
             ELSE IF IsTok(ts, r.next, Punct(")"))
                  THEN IF acc = <<>> /\ ~ comma THEN ParseOk(r.v, r.next + 1)
                       ELSE ParseOk(PyTuple(Append(acc, r.v)), r.next + 1)
             ELSE ParseErr

\* the rest of a dict display; a repeated key keeps its last value
ParseDict(ts, i, f) ==
    IF IsTok(ts, i, Punct("}")) THEN ParseOk(PyDict(f), i + 1)
    ELSE LET rk == ParseValue(ts, i)
         IN  IF ~ rk.ok \/ ~ IsTok(ts, rk.next, Punct(":")) THEN ParseErr
             ELSE LET rv == ParseValue(ts, rk.next + 1)
                  IN  IF ~ rv.ok THEN ParseErr
                      ELSE IF IsTok(ts, rv.next, Punct(","))
                           THEN ParseDict(ts, rv.next + 1, (rk.v :> rv.v) @@ f)
                      ELSE IF IsTok(ts, rv.next, Punct("}"))
                           THEN ParseOk(PyDict((rk.v :> rv.v) @@ f), rv.next + 1)
                      ELSE ParseErr

\* ast.literal_eval(text): the value, or an error (SyntaxError, ValueError)
\* when the text is not one well-formed literal
literal_eval(ts) ==
    LET r == ParseValue(ts, 1)
    IN  IF r.ok /\ r.next = Len(ts) + 1 THEN [ok |-> TRUE, v |-> r.v]
        ELSE [ok |-> FALSE, v |-> PyNone]

(***************************************************************************)
(* The backend compilers (compiler_interface.py).                          *)
(***************************************************************************)
\* make_compiler: the adaptor class chosen from the configuration
make_compiler(use_inductor, use_standalone_compile) ==
    IF use_inductor
    THEN IF use_standalone_compile THEN "InductorStandaloneAdaptor"
         ELSE "InductorAdaptor"
    ELSE "EagerAdaptor"

\* the name attribute of each adaptor class, part of every cache key
CompilerName(compiler) ==
    CASE compiler = "InductorStandaloneAdaptor" -> "inductor_standalone"
      [] compiler = "InductorAdaptor"           -> "inductor"
      [] compiler = "EagerAdaptor"              -> "eager"

\* callables: none, one compiled by the adaptor, one rebuilt from a handle
NoCallable == [kind |-> "none", handle |-> PyNone]
CompiledFn == [kind |-> "compiled", handle |-> PyNone]
LoadedFn(handle) == [kind |-> "loaded", handle |-> handle]

\* the handles an adaptor's compile may return: None, or literal data
Handles == { PyNone, PyTuple(<<PyStr("fx_hash"), PyStr("path")>>) }

\* literal data of other shapes that a stored handle may be: ints, strings,
\* empty, one-element and nested tuples
LiteralHandles ==
    { PyInt(-1), PyStr("artifact"), PyTuple(<<>>),
      PyTuple(<<PyStr("fx_hash")>>),
      PyTuple(<<PyTuple(<<PyNone, PyInt(0)>>), PyStr("path")>>) }

\* what an adaptor's compile may return: (callable, handle)
AdaptorResults ==
    { [callable |-> c, handle |-> h] : c \in {NoCallable, CompiledFn}, h \in Handles }

(***************************************************************************)
(* CompilerManager                                                         *)
(***************************************************************************)
\* no directory: the attribute is unset, or the configuration names none
NoDir == <<>>

\* CompilerManager.__init__; disable_cache and cache_dir are attributes only
\* once initialize_cache has run (initialized)
CompilerManagerInit(compiler) ==
    [ cache            |-> PyDict(EmptyMap),
      is_cache_updated |-> FALSE,
      compiler         |-> compiler,
      initialized      |-> FALSE,
      disable_cache    |-> FALSE,
      cache_dir        |-> NoDir ]

NoFile == [exists |-> FALSE, text |-> <<>>]
FileOf(text) == [exists |-> TRUE, text |-> text]

\* a plausible slip: a file that does not parse is taken for an empty cache
initialize_cache_lenient(cm, file, cache_dir, disable_cache) ==
    LET cm1 == [cm EXCEPT !.initialized = TRUE, !.disable_cache = disable_cache,
                          !.cache_dir = cache_dir]
    IN  IF ~ disable_cache /\ file.exists
        THEN LET r == literal_eval(file.text)
             IN  [raised |-> FALSE,
                  cm |-> [cm1 EXCEPT !.cache = IF r.ok THEN r.v ELSE PyDict(EmptyMap)]]
        ELSE [raised |-> FALSE, cm |-> cm1]

\* a plausible slip: the file is read although the cache is disabled
initialize_cache_reads_anyway(cm, file, cache_dir, disable_cache) ==
    LET cm1 == [cm EXCEPT !.initialized = TRUE, !.disable_cache = disable_cache,
                          !.cache_dir = cache_dir]
    IN  IF file.exists
        THEN LET r == literal_eval(file.text)
             IN  IF r.ok THEN [raised |-> FALSE, cm |-> [cm1 EXCEPT !.cache = r.v]]
                 ELSE [raised |-> TRUE, cm |-> cm1]
        ELSE [raised |-> FALSE, cm |-> cm1]

\* CompilerManager.initialize_cache; file is the cache file of cache_dir.
\* The result tells whether literal_eval raised, and the manager afterwards.
initialize_cache(cm, file, cache_dir, disable_cache) ==
    LET cm1 == [cm EXCEPT !.initialized = TRUE, !.disable_cache = disable_cache,
                          !.cache_dir = cache_dir]
    IN  IF ~ disable_cache /\ file.exists
        THEN LET r == literal_eval(file.text)
             IN  IF r.ok THEN [raised |-> FALSE, cm |-> [cm1 EXCEPT !.cache = r.v]]
                 ELSE [raised |-> TRUE, cm |-> cm1]
        ELSE [raised |-> FALSE, cm |-> cm1]

\* a plausible slip: the early return is missing
save_to_file_unguarded(cm, file, text) == FileOf(text)

\* a plausible slip: the file is written whether or not the cache is dirty
save_to_file_always(cm, file, text) ==
    IF cm.disable_cache THEN file ELSE FileOf(text)

\* CompilerManager.save_to_file: the cache file afterwards; text is what
\* pformat made of the cache
save_to_file(cm, file, text) ==
    IF cm.disable_cache \/ ~ cm.is_cache_updated THEN file
    ELSE FileOf(text)

\* a plausible slip: the entry of any shape serves
load_any_shape(cm, graph_index, runtime_shape) ==
    LET keys == { k \in DOMAIN cm.cache.d :
                    k.e[2] = PyInt(graph_index) /\ k.e[3] = PyStr(CompilerName(cm.compiler)) }
    IN  IF keys = {} THEN NoCallable
        ELSE LoadedFn(cm.cache.d[CHOOSE k \in keys : TRUE])

\* CompilerManager.load: the callable rebuilt from the stored handle, or none
load(cm, graph_index, runtime_shape) ==
    LET key == CacheKey(runtime_shape, graph_index, CompilerName(cm.compiler))
    IN  IF key \notin DOMAIN cm.cache.d THEN NoCallable
        ELSE LoadedFn(cm.cache.d[key])

\* the key handed to the adaptor's compile
maybe_key(cm, graph_index, runtime_shape) ==
    IF cm.compiler = "InductorAdaptor" THEN PyNone
    ELSE PyTuple(<<PyStr("artifact_shape_"), runtime_shape,
                   PyStr("_subgraph_"), PyInt(graph_index)>>)

\* a plausible slip: the handle is stored but the cache is not marked dirty
store_handle_clean(cm, key, handle, disable_compile_cache) ==
    IF ~ disable_compile_cache /\ handle # PyNone
    THEN [cm EXCEPT !.cache = PyDict((key :> handle) @@ cm.cache.d)]
    ELSE cm

\* a plausible slip: the manager's own flag is consulted, not the global one
store_handle_local_flag(cm, key, handle, disable_compile_cache) ==
    IF ~ cm.disable_cache /\ handle # PyNone
    THEN [cm EXCEPT !.cache = PyDict((key :> handle) @@ cm.cache.d),
                    !.is_cache_updated = TRUE]
    ELSE cm

\* "store the artifact in the cache"
store_handle(cm, key, handle, disable_compile_cache) ==
    IF ~ disable_compile_cache /\ handle # PyNone
    THEN [cm EXCEPT !.cache = PyDict((key :> handle) @@ cm.cache.d),
                    !.is_cache_updated = TRUE]
    ELSE cm

\* a plausible slip: a failed compile is stored before the assertion
compile_store_first(cm, graph_index, num_graphs, runtime_shape, res, disable_compile_cache) ==
    LET key    == CacheKey(runtime_shape, graph_index, CompilerName(cm.compiler))
        loaded == load(cm, graph_index, runtime_shape)
    IN  IF loaded # NoCallable
        THEN [raised |-> FALSE, cm |-> cm, callable |-> loaded, compiled |-> FALSE,
              stored |-> FALSE]
        ELSE [raised |-> res.callable = NoCallable,
              cm |-> store_handle(cm, key, res.handle, disable_compile_cache),
              callable |-> res.callable, compiled |-> TRUE,
              stored |-> ~ disable_compile_cache /\ res.handle # PyNone]

\* a plausible slip: the handle of a hit is stored once more
compile_restores(cm, graph_index, num_graphs, runtime_shape, res, disable_compile_cache) ==
    LET key    == CacheKey(runtime_shape, graph_index, CompilerName(cm.compiler))
        loaded == load(cm, graph_index, runtime_shape)
    IN  IF loaded # NoCallable
        THEN [raised |-> FALSE,
              cm |-> store_handle(cm, key, cm.cache.d[key], disable_compile_cache),
              callable |-> loaded, compiled |-> FALSE,
              stored |-> ~ disable_compile_cache /\ cm.cache.d[key] # PyNone]
        ELSE IF res.callable = NoCallable
        THEN [raised |-> TRUE, cm |-> cm, callable |-> NoCallable, compiled |-> TRUE,
              stored |-> FALSE]
        ELSE [raised |-> FALSE,
              cm |-> store_handle(cm, key, res.handle, disable_compile_cache),
              callable |-> res.callable, compiled |-> TRUE,
              stored |-> ~ disable_compile_cache /\ res.handle # PyNone]

\* CompilerManager.compile; res is what the adaptor's compile returns if it
\* is called.  The result: whether the assertion failed, the manager
\* afterwards, the callable returned, whether the adaptor compiled, and
\* whether a handle was stored under the key.
compile(cm, graph_index, num_graphs, runtime_shape, res, disable_compile_cache) ==
    LET key    == CacheKey(runtime_shape, graph_index, CompilerName(cm.compiler))
        loaded == load(cm, graph_index, runtime_shape)
    IN  IF loaded # NoCallable
        THEN [raised |-> FALSE, cm |-> cm, callable |-> loaded, compiled |-> FALSE,
              stored |-> FALSE]
        ELSE IF res.callable = NoCallable
        THEN [raised |-> TRUE, cm |-> cm, callable |-> NoCallable, compiled |-> TRUE,
              stored |-> FALSE]
        ELSE [raised |-> FALSE,
              cm |-> store_handle(cm, key, res.handle, disable_compile_cache),
              callable |-> res.callable, compiled |-> TRUE,
              stored |-> ~ disable_compile_cache /\ res.handle # PyNone]

\* the clock read by time.time(), the module's compilation_start_time and
\* compilation_config.compilation_time
NoTime == [ now |-> 0, compilation_start_time |-> 0, compilation_time |-> 0 ]

\* a plausible slip: the time is added after every subgraph
compile_timing_each(tm, r, graph_index, num_graphs, t0, t1) ==
    LET start == IF graph_index = 0 THEN t0 ELSE tm.compilation_start_time
    IN  [ now |-> t1,
          compilation_start_time |-> start,
          compilation_time |->
              IF r.compiled /\ ~ r.raised
              THEN tm.compilation_time + (t1 - start)
              ELSE tm.compilation_time ]

\* what CompilerManager.compile does with the times: r is the outcome of the
\* request, entered at t0 and left at t1
compile_timing(tm, r, graph_index, num_graphs, t0, t1) ==
    LET start == IF graph_index = 0 THEN t0 ELSE tm.compilation_start_time
    IN  [ now |-> t1,
          compilation_start_time |-> start,
          compilation_time |->
              IF r.compiled /\ ~ r.raised /\ graph_index = num_graphs - 1
              THEN tm.compilation_time + (t1 - start)
              ELSE tm.compilation_time ]

\* __call__, reached when the clock shows t, adds the time Dynamo took,
\* measured from torch_compile_start_time
add_dynamo_time(tm, t, torch_compile_start_time) ==
    LET dynamo_time == t - torch_compile_start_time
    IN  [ tm EXCEPT !.now = t, !.compilation_time = @ + dynamo_time ]

\* the history of the stores into a manager's mapping: the keys stored since
\* the manager was made and since initialize_cache ran last, and whether
\* some key was stored a second time
NoStores == [ ever |-> {}, again |-> FALSE, since_init |-> {}, again_since_init |-> FALSE ]

note_store(st, key) ==
    [ ever             |-> st.ever \cup {key},
      again            |-> st.again \/ key \in st.ever,
      since_init       |-> st.since_init \cup {key},
      again_since_init |-> st.again_since_init \/ key \in st.since_init ]

note_initialize(st) == [ st EXCEPT !.since_init = {}, !.again_since_init = FALSE ]

\* no compile request yet, no group under way
NoGroup == [ asked |-> FALSE, open |-> FALSE ]

\* the record of a compile request and of the shape-group it belongs to: a
\* group is opened by a miss at index 0 and goes on with the misses at the
\* following indices of the same shape, one after the other
track_group(g, tm, r, graph_index, num_graphs, runtime_shape, t0) ==
    LET miss == r.compiled /\ ~ r.raised
        rq   == [ graph_index |-> graph_index, num_graphs |-> num_graphs,
                  runtime_shape |-> runtime_shape, callable |-> r.callable ]
    IN  IF miss /\ graph_index = 0
        THEN [ asked |-> TRUE, request |-> rq, open |-> TRUE, next |-> 1,
               start |-> t0, before |-> tm.compilation_time ]
        ELSE IF /\ g.open
                /\ miss
                /\ g.next < g.request.num_graphs
                /\ graph_index = g.next
                /\ num_graphs = g.request.num_graphs
                /\ runtime_shape = g.request.runtime_shape
        THEN [ g EXCEPT !.request = rq, !.next = @ + 1 ]
        ELSE [ asked |-> TRUE, request |-> rq, open |-> FALSE ]

(***************************************************************************)
(* Bounds of the backend model.                                            *)
(***************************************************************************)
\* the length of the graph body handed to the backends
BodyLen == 3
\* backend instances constructed, one after the other
MaxInstances == 2
\* invocations of __call__ per backend instance
MaxInvocations == 2
\* largest concrete runtime shape compiled for (SpecCache)
MaxShape == 1
\* most entries of a cache mapping (SpecCache)
MaxEntries == 2
\* longest head of the text left behind by a write that was cut short
MaxCut == 2

\* the body nodes of the graphs handed to the backends
MainBodyNodes == { Node("call_function", "add"), Node("call_function", "attn") }

(***************************************************************************)
(* Cache directories                                                       *)
(***************************************************************************)
\* compilation_config.cache_dir: the directory the user names, or none
ExplicitDir == <<"/explicit">>
DirChoices == {NoDir, ExplicitDir}

\* the contents a traced file may have
Sources == {"v1", "v2"}

\* a plausible slip: the paths of the traced files are hashed, not their contents
HashContentPaths(source) == <<"<string>", "model.py">>

\* what the code hash is taken of: the sorted paths of the traced files, each
\* but "<string>" followed by what the file holds
HashContent(source) == <<"<string>", "model.py", source>>

\* the factors hashed into the cache directory: environment, configuration,
\* traced code and compiler; the digest is taken to be free of collisions
\* and stands as the list of its factors
HashFactors(use_inductor, compiler, source) ==
    <<"env", <<"config", use_inductor>>, HashContent(source), compiler>>

\* os.path.join(VLLM_CACHE_ROOT, "torch_compile_cache", hash_key)
DerivedDir(use_inductor, compiler, source) ==
    <<"torch_compile_cache", HashFactors(use_inductor, compiler, source)>>

Compilers == { make_compiler(u, st) : u \in BOOLEAN, st \in BOOLEAN }

CacheDirs ==
    { ExplicitDir } \cup
    { DerivedDir(u, make_compiler(u, st), src) : u \in BOOLEAN, st \in BOOLEAN, src \in Sources }

\* what an earlier process may have left as the cache file of a directory:
\* nothing, or text that is no literal
NonLiteralText == <<TName("__import__"), Punct("("), TStr("os"), Punct(")")>>
InitialFiles == { NoFile, FileOf(NonLiteralText) }

\* what an earlier process with caching enabled may have saved: the handles
\* of the dynamic-shape variants of two subgraphs compiled by Inductor
PriorMapping ==
    PyDict((CacheKey(PyNone, 0, "inductor") :> PyTuple(<<PyStr("fx_hash"), PyStr("path")>>))
           @@ (CacheKey(PyNone, 1, "inductor") :> PyTuple(<<PyStr("fx_hash"), PyStr("path")>>)))
PriorFile == FileOf(PFormat(PriorMapping.d, SortedKeys(DOMAIN PriorMapping.d)))

\* the dump of its stitched graph that such an earlier process left
PriorDump == FileOf(<<"from __future__ import annotations", "import torch", <<>>, <<>>>>)

(***************************************************************************)
(* The static input buffers of copy_and_call.  Tensors have one dimension  *)
(* and are the sequences of their elements.                                *)
(***************************************************************************)
\* longest example tensor, and so the largest capacity of a buffer
MaxLen == 2
\* the number of arguments of the traced graph
MaxArgs == 2

\* an argument: a tensor, or a value that is no tensor
Tensor(data) == [kind |-> "tensor", data |-> data]
IntArg(n)    == [kind |-> "int", n |-> n]
\* the first len elements of input buffer i, as a view that shares its storage
View(i, len) == [kind |-> "view", buffer |-> i, len |-> len]

\* the tensors of up to n elements that are filled with one of the values
TensorData(n, values) == { [j \in 1..k |-> v] : k \in 0..n, v \in values }

\* an example input with whether its fake tensor has a symbolic size
ExampleArgs ==
    { [arg |-> Tensor(d), symbolic |-> sym] : d \in TensorData(MaxLen, {0}), sym \in BOOLEAN }
    \cup { [arg |-> IntArg(0), symbolic |-> FALSE] }

\* the arguments of a later call: tensors, also longer than any example
RuntimeArgs(example) ==
    IF example.arg.kind = "int" THEN { IntArg(0), IntArg(1) }
    ELSE IF example.symbolic THEN { Tensor(d) : d \in TensorData(MaxLen + 1, {1, 2}) }
    ELSE { Tensor(example.arg.data) }

NoReplay == [ made |-> FALSE, example_inputs |-> <<>>, sym_tensor_indices |-> <<>>,
              input_buffers |-> <<>>, called |-> FALSE, args |-> <<>>,
              forwarded |-> <<>>, raised |-> FALSE ]

\* the positions of the tensors with a symbolic size, ascending
RECURSIVE SymTensorIndices(_, _)
SymTensorIndices(example_inputs, n) ==
    IF n = 0 THEN <<>>
    ELSE IF example_inputs[n].arg.kind = "tensor" /\ example_inputs[n].symbolic
         THEN Append(SymTensorIndices(example_inputs, n - 1), n)
         ELSE SymTensorIndices(example_inputs, n - 1)

\* the clones of the example inputs at the symbolic positions
make_input_buffers(example_inputs) ==
    LET idx == SymTensorIndices(example_inputs, Len(example_inputs))
    IN  [ made |-> TRUE, example_inputs |-> example_inputs, sym_tensor_indices |-> idx,
          input_buffers |-> [i \in 1..Len(idx) |-> example_inputs[idx[i]].arg.data],
          called |-> FALSE, args |-> <<>>, forwarded |-> <<>>, raised |-> FALSE ]

\* a plausible slip: the whole buffer is forwarded, not its prefix
CopyOneWhole(st, i, index) ==
    LET runtime_tensor == st.list_args[index].data
        n   == Len(runtime_tensor)
        cap == Len(st.input_buffers[i])
    IN  IF st.raised THEN st
        ELSE IF n <= cap
        THEN [ st EXCEPT !.input_buffers[i] = runtime_tensor \o SubSeq(@, n + 1, cap),
                         !.list_args[index] = View(i, cap) ]
        ELSE IF n = 1
        THEN [ st EXCEPT !.list_args[index] = View(i, cap) ]
        ELSE [ st EXCEPT !.raised = TRUE ]

\* one iteration of copy_and_call's loop: buffer i takes the tensor at
\* position index.  The slice [:n] of a buffer of capacity cap has
\* min(n, cap) elements; copy_ raises when the sizes differ, except that a
\* tensor of one element is broadcast, also into an empty slice
CopyOne(st, i, index) ==
    LET runtime_tensor == st.list_args[index].data
        n   == Len(runtime_tensor)
        cap == Len(st.input_buffers[i])
    IN  IF st.raised THEN st
        ELSE IF n <= cap
        THEN [ st EXCEPT !.input_buffers[i] = runtime_tensor \o SubSeq(@, n + 1, cap),
                         !.list_args[index] = View(i, n) ]
        ELSE IF n = 1
        THEN [ st EXCEPT !.list_args[index] = View(i, cap) ]
        ELSE [ st EXCEPT !.raised = TRUE ]

RECURSIVE CopyLoop(_, _, _)
CopyLoop(st, idx, i) ==
    IF i > Len(idx) THEN st ELSE CopyLoop(CopyOne(st, i, idx[i]), idx, i + 1)

\* copy_and_call(*args): the buffers afterwards and the arguments forwarded
\* to split_gm, or the error raised on the way
copy_and_call(rp, args) ==
    LET st == CopyLoop([ input_buffers |-> rp.input_buffers, list_args |-> args,
                         raised |-> FALSE ],
                       rp.sym_tensor_indices, 1)
    IN  [ rp EXCEPT !.input_buffers = st.input_buffers,
                    !.called = TRUE,
                    !.args = args,
                    !.forwarded = IF st.raised THEN <<>> ELSE st.list_args,
                    !.raised = st.raised ]

(***************************************************************************)
(* State                                                                   *)
(***************************************************************************)
VARIABLES
    graph,                  \* the traced graph handed to the backend
    splitting_ops,          \* compilation_config.splitting_ops
    split_out,              \* the result of split_graph, once applied (SpecSplit)
    disable_compile_cache,  \* envs.VLLM_DISABLE_COMPILE_CACHE
    use_standalone_compile, \* envs.VLLM_USE_STANDALONE_COMPILE with torch >= 2.8
    cache_files,            \* vllm_compile_cache.py of each cache directory
    written,                \* history: the mapping save_to_file last wrote to each
    saved_full,             \* history: who called save_to_file after a full compilation
    backend,                \* the live VllmBackend instance, with its CompilerManager
    instances,              \* the number of instances constructed so far
    pos,                    \* the interpreter's position in a __call__ in progress, or 0
    graph_files,            \* computation_graph.py of each cache directory
    replay,                 \* the buffers of copy_and_call and what it forwarded last
    traced_source,          \* what the traced source file model.py holds
    runs,                   \* the last two calls of a backend: what each was given and used
    timing,                 \* the clock, compilation_start_time and compilation_time
    group,                  \* the shape-group whose subgraphs are being compiled in a row
    stores,                 \* history: the keys stored into the live manager's mapping
    tags,                   \* the global model_tag and the open set_model_tag blocks
    last                    \* the operation that ran last, and how it ended

vars == <<graph, splitting_ops, split_out, disable_compile_cache,
          use_standalone_compile, cache_files, written, saved_full, backend,
          instances, pos, last, graph_files, replay, traced_source, runs,
          timing, group, stores, tags>>

\* the state an operation that deals with the cache alone leaves as it is
aside == <<graph_files, replay, traced_source, runs, timing, group, stores, tags>>

inputs == <<graph, splitting_ops, split_out, disable_compile_cache, use_standalone_compile>>

NoSplit == [ done |-> FALSE, node_to_subgraph_id |-> <<>>, split_op_graphs |-> <<>>,
             split_gm |-> [names |-> <<>>, modules |-> <<>>, calls |-> <<>>],
             outputs |-> <<>> ]

NoResult == [callable |-> NoCallable, handle |-> PyNone]

\* an operation: whether it raised, and whether it had the adaptor compile
(***************************************************************************)
(* The model tag                                                           *)
(***************************************************************************)
\* model_tag as the module defines it
DefaultTag == "backbone"

Tags == {"backbone", "eagle_head", "draft"}

\* the prefix argument of VllmBackend.__init__; "" is its default
Prefixes == {"", "language_model"}

\* how deep set_model_tag blocks are nested
MaxDepth == 3

\* blocks: the old_tag of each set_model_tag generator suspended at its
\* yield, the innermost last; open: for each of them the tag asked for and
\* the tag that was active when it was entered, kept by the caller's side;
\* asked: the argument of the last set_model_tag; prefix: self.prefix of
\* the backend constructed last
NoTags == [ model_tag |-> DefaultTag, blocks |-> <<>>, open |-> <<>>,
            asked |-> DefaultTag, prefix |-> DefaultTag ]

\* set_model_tag from its entry to its yield
set_model_tag_enter(tg, tag) ==
    IF tag = tg.model_tag
    THEN [ raised |-> TRUE, tags |-> tg ]
    ELSE LET old_tag == tg.model_tag
         IN  [ raised |-> FALSE,
               tags   |-> [tg EXCEPT !.blocks = Append(@, [old_tag |-> old_tag]),
                                     !.model_tag = tag] ]

\* a plausible slip: the tag is restored behind the yield with no
\* try/finally, so an exception in the block passes it by
set_model_tag_exit_no_finally(tg, exc) ==
    LET old_tag == tg.blocks[Len(tg.blocks)].old_tag
    IN  [tg EXCEPT !.model_tag = IF exc THEN @ ELSE old_tag,
                   !.blocks = SubSeq(@, 1, Len(@) - 1)]

\* set_model_tag from its yield on: the block has ended, by an exception
\* if exc, and the finally clause runs
set_model_tag_exit(tg, exc) ==
    LET old_tag == tg.blocks[Len(tg.blocks)].old_tag
    IN  [tg EXCEPT !.model_tag = old_tag,
                   !.blocks = SubSeq(@, 1, Len(@) - 1)]

\* self.prefix = prefix or model_tag
prefix_or_model_tag(prefix, model_tag) == IF prefix # "" THEN prefix ELSE model_tag

Event(op, raised, compiled) == [ op |-> op, raised |-> raised, compiled |-> compiled ]

NothingWritten == [some |-> FALSE, mapping |-> PyDict(EmptyMap)]
NobodySaved == [full |-> {}, stored |-> {}]

\* compilation_config.traced_files, as Dynamo's tracing leaves it
TracedFiles == {"<string>", "model.py"}

\* VllmBackend.__init__
BackendInit(cache_dir, use_inductor, standalone) ==
    [ called           |-> FALSE,
      invocations      |-> 0,
      cache_dir        |-> cache_dir,
      use_inductor     |-> use_inductor,
      compiler_manager |-> CompilerManagerInit(make_compiler(use_inductor, standalone)),
      piecewise_graphs |-> <<>>,
      calls            |-> <<>>,
      compile_submod_names |-> <<>>,
      units            |-> <<>>,
      requests         |-> <<>>,
      adaptor_compiles |-> 0,
      traced_files     |-> TracedFiles ]

Init ==
    /\ graph \in { FxGraph(body) :
                      body \in { s \in SeqsUpTo(MainBodyNodes, BodyLen) : Len(s) = BodyLen } }
    /\ splitting_ops = {"attn"}
    /\ split_out = NoSplit
    /\ disable_compile_cache \in BOOLEAN
    /\ use_standalone_compile \in BOOLEAN
    /\ \E f \in InitialFiles \cup {PriorFile} :
           /\ cache_files = [d \in CacheDirs |-> f]
           /\ written = [d \in CacheDirs |->
                            IF f = PriorFile
                            THEN [some |-> TRUE, mapping |-> PriorMapping]
                            ELSE NothingWritten]
           /\ graph_files = [d \in CacheDirs |-> IF f = PriorFile THEN PriorDump ELSE NoFile]
    /\ replay = NoReplay
    /\ traced_source = "v1"
    /\ runs = <<>>
    /\ timing = NoTime
    /\ group = NoGroup
    /\ stores = NoStores
    /\ tags = NoTags
    /\ saved_full = [d \in CacheDirs |-> NobodySaved]
    /\ \E d \in DirChoices, u \in BOOLEAN :
           backend = BackendInit(d, u, use_standalone_compile)
    /\ instances = 1
    /\ pos = 0
    /\ last = Event("new", FALSE, FALSE)

\* a further VllmBackend is constructed; the one before is let go
NewBackend(cache_dir, use_inductor) ==
    /\ pos = 0
    /\ instances < MaxInstances
    /\ backend' = BackendInit(cache_dir, use_inductor, use_standalone_compile)
    /\ instances' = instances + 1
    /\ last' = Event("new", FALSE, FALSE)
    /\ UNCHANGED <<aside, inputs, cache_files, written, saved_full, pos>>

\* the directory __call__ settles on: the configured one, or the derived one
CacheDirOf(be) ==
    IF be.cache_dir = NoDir
    THEN DerivedDir(be.use_inductor, be.compiler_manager.compiler, traced_source)
    ELSE be.cache_dir

\* what a call starts from: the directory the configuration gave, the factors
\* of the hash, the directory used and whether it held a cache file
RunOf(be, dir) ==
    [ given        |-> be.cache_dir,
      use_inductor |-> be.use_inductor,
      compiler     |-> be.compiler_manager.compiler,
      source       |-> traced_source,
      dir          |-> dir,
      had_cache    |-> cache_files[dir].exists ]

LastTwo(rs) == IF Len(rs) > 2 THEN Tail(rs) ELSE rs

\* a plausible slip: the items that are splitting graphs are not left out
NamesToCompileAll(items, n) == [i \in 1..n |-> items[i].submod_name]

\* the names of the items that are not splitting graphs, in order
RECURSIVE NamesToCompile(_, _)
NamesToCompile(items, n) ==
    IF n = 0 THEN <<>>
    ELSE IF items[n].is_splitting_graph THEN NamesToCompile(items, n - 1)
         ELSE Append(NamesToCompile(items, n - 1), items[n].submod_name)

\* a plausible slip: the position among all submodules is taken for the index
IndexInAll(names, calls, x) ==
    (CHOOSE k \in 1..Len(calls) : calls[k] = x) - 1

\* compile_submod_names.index(target), counted from 0
IndexIn(names, calls, x) ==
    (CHOOSE k \in 1..Len(names) : names[k] = x /\ \A j \in 1..(k - 1) : names[j] # x) - 1

\* a plausible slip: _called is not looked at
AlreadyCalledIgnored(be) == FALSE

\* "assert not self._called"
AlreadyCalled(be) == be.called

\* VllmBackend.__call__ up to the start of the interpreter's run: the cache
\* directory (with no directory configured the traced files are hashed and
\* the set is cleared), initialize_cache, the addition of dynamo_time, the
\* single-use assertion, split_graph.  The call is made when the clock
\* shows t.
CallBeginAt(t, torch_compile_start_time) ==
    LET be   == backend
        dir  == CacheDirOf(be)
        ini  == initialize_cache(be.compiler_manager, cache_files[dir], dir,
                                 disable_compile_cache)
        be1  == [be EXCEPT !.invocations = @ + 1,
                           !.cache_dir = dir,
                           !.traced_files = IF be.cache_dir = NoDir THEN {} ELSE @,
                           !.compiler_manager = ini.cm,
                           !.requests = <<>>,
                           !.adaptor_compiles = 0]
        sp   == split_graph(graph, splitting_ops)
    IN  /\ pos = 0
        /\ be.invocations < MaxInvocations
        /\ IF ini.raised \/ AlreadyCalled(be)
           THEN /\ backend' = be1
                /\ pos' = 0
                /\ last' = Event("call", TRUE, FALSE)
                /\ timing' = IF ini.raised THEN [timing EXCEPT !.now = t]
                             ELSE add_dynamo_time(timing, t, torch_compile_start_time)
           ELSE /\ backend' =
                       [be1 EXCEPT !.piecewise_graphs = sp.outputs,
                                   !.calls = sp.split_gm.calls,
                                   !.compile_submod_names =
                                       NamesToCompile(sp.outputs, Len(sp.outputs)),
                                   !.units = <<>>]
                /\ pos' = 1
                /\ last' = Event("call_begin", FALSE, FALSE)
                /\ timing' = add_dynamo_time(timing, t, torch_compile_start_time)
        /\ runs' = LastTwo(Append(runs, RunOf(be, dir)))
        /\ UNCHANGED <<tags, graph_files, replay, traced_source, group, stores, inputs, cache_files,
                       written, saved_full, instances>>

\* a call during which the clock stands still; torch.compile was started no
\* later
CallBegin ==
    \E torch_compile_start_time \in 0..timing.now :
        CallBeginAt(timing.now, torch_compile_start_time)

\* PiecewiseCompileInterpreter.call_module for the next call_module node of
\* the stitching graph; res is what the adaptor's compile returns if called
CallModule(res) ==
    LET be     == backend
        target == be.calls[pos]
        names  == be.compile_submod_names
        index  == IndexIn(names, be.calls, target)
        r      == compile(be.compiler_manager, index, Len(names), PyNone, res,
                          disable_compile_cache)
    IN  /\ pos >= 1
        /\ pos <= Len(be.calls)
        /\ IF InSeq(target, names)
           THEN /\ r.compiled \/ res = NoResult
                /\ backend' =
                       [be EXCEPT !.compiler_manager = r.cm,
                                  !.requests = Append(@, [submod |-> target,
                                                          runtime_shape |-> PyNone,
                                                          graph_index |-> index,
                                                          num_graphs |-> Len(names)]),
                                  !.adaptor_compiles = @ + (IF r.compiled THEN 1 ELSE 0),
                                  !.units = IF r.raised THEN @
                                            ELSE (target :> [index |-> index,
                                                             total |-> Len(names),
                                                             compiled |-> r.callable]) @@ @]
                /\ pos' = IF r.raised THEN 0 ELSE pos + 1
                /\ last' = Event("call_module", r.raised, r.compiled)
                /\ timing' = compile_timing(timing, r, index, Len(names), timing.now, timing.now)
           ELSE /\ res = NoResult
                /\ backend' = backend
                /\ pos' = pos + 1
                /\ last' = Event("call_module", FALSE, FALSE)
                /\ timing' = timing
        /\ UNCHANGED <<tags, graph_files, replay, traced_source, runs, group, stores, inputs,
                       cache_files, written, saved_full, instances>>

\* split_gm.print_readable: the text lists the calls of the stitching module
\* and the nodes of every submodule
print_readable(calls, items) ==
    <<"from __future__ import annotations", "import torch", calls,
      [k \in 1..Len(items) |-> <<items[k].submod_name, items[k].graph>>]>>

\* a plausible slip: the dump is written whether or not the file is there
dump_graph_always(file, calls, items) == FileOf(print_readable(calls, items))

\* the dump of the stitched graph: written only if the file is not there
dump_graph(file, calls, items) ==
    IF file.exists THEN file ELSE FileOf(print_readable(calls, items))

\* the end of VllmBackend.__call__, once the interpreter has run
CallEnd ==
    /\ pos >= 1
    /\ pos > Len(backend.calls)
    /\ backend' = [backend EXCEPT !.called = TRUE]
    /\ graph_files' = [graph_files EXCEPT ![backend.compiler_manager.cache_dir] =
                           dump_graph(@, backend.calls, backend.piecewise_graphs)]
    /\ pos' = 0
    /\ last' = Event("call", FALSE, FALSE)
    /\ UNCHANGED <<tags, replay, traced_source, runs, timing, group, stores, inputs, cache_files,
                   written, saved_full, instances>>

\* the keys of the dynamic-shape variants of the subgraphs to compile
DynamicKeys(be) ==
    { CacheKey(PyNone, i, CompilerName(be.compiler_manager.compiler)) :
          i \in 0..(Len(be.compile_submod_names) - 1) }

\* CompilerManager.save_to_file of the live backend's manager
SaveToFile ==
    LET cm     == backend.compiler_manager
        dir    == cm.cache_dir
        writes == ~ (cm.disable_cache \/ ~ cm.is_cache_updated)
    IN  /\ pos = 0
        /\ IF ~ cm.initialized
           THEN \* self.disable_cache does not exist yet: AttributeError
                /\ UNCHANGED <<cache_files, written, saved_full>>
                /\ last' = Event("save_to_file", TRUE, FALSE)
           ELSE /\ \E text \in Renderings(cm.cache.d) :
                       cache_files' = [cache_files EXCEPT ![dir] =
                                           save_to_file(cm, @, text)]
                /\ written' = IF writes
                              THEN [written EXCEPT ![dir] =
                                        [some |-> TRUE, mapping |-> cm.cache]]
                              ELSE written
                /\ saved_full' =
                       IF backend.called
                       THEN [saved_full EXCEPT
                               ![dir].full = @ \cup {cm.compiler},
                               ![dir].stored = @ \cup
                                   (IF DynamicKeys(backend) \subseteq DOMAIN cm.cache.d
                                    THEN {cm.compiler} ELSE {})]
                       ELSE saved_full
                /\ last' = Event("save_to_file", FALSE, FALSE)
        /\ UNCHANGED <<aside, inputs, backend, instances, pos>>

\* the traced source file is edited between two runs
EditTracedFile(source) ==
    /\ pos = 0
    /\ source # traced_source
    /\ traced_source' = source
    /\ UNCHANGED <<tags, graph_files, replay, runs, timing, group, stores, inputs, cache_files,
                   written, saved_full, backend, instances, last>>
    /\ UNCHANGED pos

Next ==
    \/ \E d \in DirChoices, u \in BOOLEAN : NewBackend(d, u)
    \/ CallBegin
    \/ \E res \in AdaptorResults : CallModule(res)
    \/ CallEnd
    \/ SaveToFile

Spec == Init /\ [][Next]_vars

(***************************************************************************)
(* SpecCache: the CompilerManager driven through its own methods, as the   *)
(* backend and the runtime units of the subgraphs drive it.                *)
(***************************************************************************)
RuntimeShapes == { PyNone } \cup { PyInt(n) : n \in 1..MaxShape }

CacheInit ==
    /\ graph = FxGraph(<<>>)
    /\ splitting_ops = {"attn"}
    /\ split_out = NoSplit
    /\ disable_compile_cache \in BOOLEAN
    /\ use_standalone_compile \in BOOLEAN
    /\ \E f \in InitialFiles : cache_files = [d \in CacheDirs |-> f]
    /\ written = [d \in CacheDirs |-> NothingWritten]
    /\ saved_full = [d \in CacheDirs |-> NobodySaved]
    /\ \E u \in BOOLEAN : backend = BackendInit(ExplicitDir, u, use_standalone_compile)
    /\ graph_files = [d \in CacheDirs |-> NoFile]
    /\ replay = NoReplay
    /\ traced_source = "v1"
    /\ runs = <<>>
    /\ timing = NoTime
    /\ group = NoGroup
    /\ stores = NoStores
    /\ tags = NoTags
    /\ instances = 1
    /\ pos = 0
    /\ last = Event("new", FALSE, FALSE)

\* CompilerManager.initialize_cache(cache_dir, disable_cache)
InitializeCacheOf(cache_dir, disable_cache) ==
    LET ini == initialize_cache(backend.compiler_manager, cache_files[cache_dir],
                                cache_dir, disable_cache)
    IN  /\ pos = 0
        /\ backend' = [backend EXCEPT !.compiler_manager = ini.cm]
        /\ last' = Event("initialize_cache", ini.raised, FALSE)
        /\ UNCHANGED <<tags, graph_files, replay, traced_source, runs, timing, group, inputs,
                       cache_files, written, saved_full, instances, pos>>

InitializeCache(cache_dir, disable_cache) ==
    /\ InitializeCacheOf(cache_dir, disable_cache)
    /\ UNCHANGED stores

\* CompilerManager.compile(graph_index, num_graphs, runtime_shape); res is
\* what the adaptor's compile returns if it is called
\* it is entered when the clock shows t0 and left when it shows t1
CompileAt(graph_index, num_graphs, runtime_shape, res, t0, t1) ==
    LET cm  == backend.compiler_manager
        r   == compile(cm, graph_index, num_graphs, runtime_shape, res,
                       disable_compile_cache)
    IN  /\ pos = 0
        /\ cm.initialized
        /\ graph_index < num_graphs
        /\ IF r.compiled THEN Cardinality(DOMAIN cm.cache.d) < MaxEntries
           ELSE res = NoResult
        /\ backend' = [backend EXCEPT !.compiler_manager = r.cm]
        /\ last' = Event("compile", r.raised, r.compiled)
        /\ timing' = compile_timing(timing, r, graph_index, num_graphs, t0, t1)
        /\ UNCHANGED <<tags, graph_files, replay, traced_source, runs, inputs, cache_files, written,
                       saved_full, instances, pos>>

\* a compile request during which the clock stands still
Compile(graph_index, num_graphs, runtime_shape, res) ==
    /\ CompileAt(graph_index, num_graphs, runtime_shape, res, timing.now, timing.now)
    /\ UNCHANGED <<group, stores>>

\* the places at which a write of text may be cut short
CutPoints(text) == { n \in 0..(Len(text) - 1) : n <= MaxCut \/ n = Len(text) - 1 }

\* save_to_file cut short while it writes (the process dies): the file keeps
\* a head of the text, and the next process starts with a new backend
SaveInterrupted(n) ==
    LET cm  == backend.compiler_manager
        dir == cm.cache_dir
    IN  /\ pos = 0
        /\ instances < MaxInstances
        /\ cm.initialized
        /\ ~ (cm.disable_cache \/ ~ cm.is_cache_updated)
        /\ \E text \in Renderings(cm.cache.d) :
               /\ n \in CutPoints(text)
               /\ cache_files' = [cache_files EXCEPT ![dir] = FileOf(SubSeq(text, 1, n))]
        /\ written' = [written EXCEPT ![dir] = NothingWritten]
        /\ backend' = BackendInit(backend.cache_dir, backend.use_inductor,
                                  use_standalone_compile)
        /\ instances' = instances + 1
        /\ last' = Event("save_interrupted", TRUE, FALSE)
        /\ UNCHANGED <<aside, inputs, saved_full, pos>>

CacheNext ==
    \/ \E u \in BOOLEAN : NewBackend(ExplicitDir, u)
    \/ \E disable_cache \in BOOLEAN : InitializeCache(ExplicitDir, disable_cache)
    \/ \E graph_index \in 0..1, shape \in RuntimeShapes, res \in AdaptorResults :
           Compile(graph_index, 2, shape, res)
    \/ SaveToFile
    \/ \E n \in 0..(4 * MaxEntries * 8) : SaveInterrupted(n)

SpecCache == CacheInit /\ [][CacheNext]_vars

(***************************************************************************)
(* SpecRoundTrip: a manager holding any mapping of the bounded set saves   *)
(* it, and a new manager is initialized from the file.                     *)
(***************************************************************************)
AllKeys ==
    { CacheKey(shape, i, CompilerName(c)) : shape \in RuntimeShapes, i \in 0..1,
                                            c \in Compilers }

\* the mappings of at most MaxEntries entries
Mappings ==
    UNION { [keys -> LiteralHandles] :
              keys \in { ks \in SUBSET AllKeys : Cardinality(ks) <= MaxEntries } }

RoundTripInit ==
    /\ graph = FxGraph(<<>>)
    /\ splitting_ops = {"attn"}
    /\ split_out = NoSplit
    /\ disable_compile_cache = FALSE
    /\ use_standalone_compile = FALSE
    /\ cache_files = [d \in CacheDirs |-> NoFile]
    /\ written = [d \in CacheDirs |-> NothingWritten]
    /\ saved_full = [d \in CacheDirs |-> NobodySaved]
    /\ \E m \in Mappings :
           backend = [BackendInit(ExplicitDir, TRUE, FALSE) EXCEPT
                          !.compiler_manager =
                              [@ EXCEPT !.cache = PyDict(m), !.is_cache_updated = TRUE,
                                        !.initialized = TRUE, !.cache_dir = ExplicitDir]]
    /\ graph_files = [d \in CacheDirs |-> NoFile]
    /\ replay = NoReplay
    /\ traced_source = "v1"
    /\ runs = <<>>
    /\ timing = NoTime
    /\ group = NoGroup
    /\ stores = NoStores
    /\ tags = NoTags
    /\ instances = 1
    /\ pos = 0
    /\ last = Event("compile", FALSE, TRUE)

RoundTripNext ==
    \/ SaveToFile
    \/ \E u \in BOOLEAN : NewBackend(ExplicitDir, u)
    \/ \E disable_cache \in BOOLEAN : InitializeCache(ExplicitDir, disable_cache)

SpecRoundTrip == RoundTripInit /\ [][RoundTripNext]_vars

(***************************************************************************)
(* SpecSplit: split_graph applied to every graph of the bounded set        *)
(***************************************************************************)
SplitInit ==
    /\ graph \in { FxGraph(body) : body \in SeqsUpTo(BodyNodes, MaxNodes) }
    /\ splitting_ops \in SUBSET SplitOpNames
    /\ split_out = NoSplit
    /\ disable_compile_cache = FALSE
    /\ use_standalone_compile = FALSE
    /\ cache_files = [d \in CacheDirs |-> NoFile]
    /\ written = [d \in CacheDirs |-> NothingWritten]
    /\ saved_full = [d \in CacheDirs |-> NobodySaved]
    /\ backend = BackendInit(NoDir, FALSE, FALSE)
    /\ graph_files = [d \in CacheDirs |-> NoFile]
    /\ replay = NoReplay
    /\ traced_source = "v1"
    /\ runs = <<>>
    /\ timing = NoTime
    /\ group = NoGroup
    /\ stores = NoStores
    /\ tags = NoTags
    /\ instances = 1
    /\ pos = 0
    /\ last = Event("new", FALSE, FALSE)

ApplySplit ==
    /\ ~ split_out.done
    /\ split_out' = [done |-> TRUE] @@ split_graph(graph, splitting_ops)
    /\ UNCHANGED <<aside, graph, splitting_ops, disable_compile_cache, use_standalone_compile,
                   cache_files, written, saved_full, backend, instances, pos, last>>

SplitNext == ApplySplit

SpecSplit == SplitInit /\ [][SplitNext]_vars

\* node i of the graph is a splitting op
IsSplittingNode(g, ops, i) == g[i].op = "call_function" /\ g[i].target \in ops

(***************************************************************************)
(* SpecStores: the operations on one manager in one process, with the      *)
(* history of what was stored into its mapping.                            *)
(***************************************************************************)
TrackedInitializeCache(cache_dir, disable_cache) ==
    /\ InitializeCacheOf(cache_dir, disable_cache)
    /\ stores' = note_initialize(stores)

TrackedCompile(graph_index, num_graphs, runtime_shape, res) ==
    LET cm == backend.compiler_manager
        r  == compile(cm, graph_index, num_graphs, runtime_shape, res, disable_compile_cache)
    IN  /\ CompileAt(graph_index, num_graphs, runtime_shape, res, timing.now, timing.now)
        /\ stores' = IF r.stored
                     THEN note_store(stores, CacheKey(runtime_shape, graph_index,
                                                      CompilerName(cm.compiler)))
                     ELSE stores
        /\ UNCHANGED group

StoresNext ==
    \/ \E disable_cache \in BOOLEAN : TrackedInitializeCache(ExplicitDir, disable_cache)
    \/ \E graph_index \in 0..1, shape \in RuntimeShapes, res \in AdaptorResults :
           TrackedCompile(graph_index, 2, shape, res)
    \/ SaveToFile

SpecStores == CacheInit /\ [][StoresNext]_vars

(***************************************************************************)
(* SpecTiming: compile requests to a manager whose cache may hold an       *)
(* entry, while the clock runs.                                            *)
(***************************************************************************)
\* the latest time the clock shows
MaxClock == 2
\* the most compilation time accumulated
MaxTime == 3
\* the most subgraphs of a shape-group
MaxGraphs == 2

\* what initialize_cache may have read: nothing, or one entry
TimingMappings ==
    { EmptyMap } \cup
    { (k :> PyTuple(<<PyStr("fx_hash"), PyStr("path")>>)) : k \in AllKeys }

TimingInit ==
    /\ graph = FxGraph(<<>>)
    /\ splitting_ops = {"attn"}
    /\ split_out = NoSplit
    /\ disable_compile_cache = FALSE
    /\ use_standalone_compile = FALSE
    /\ cache_files = [d \in CacheDirs |-> NoFile]
    /\ written = [d \in CacheDirs |-> NothingWritten]
    /\ saved_full = [d \in CacheDirs |-> NobodySaved]
    /\ \E u \in BOOLEAN, m \in TimingMappings :
           backend = [BackendInit(ExplicitDir, u, FALSE) EXCEPT
                          !.compiler_manager =
                              [@ EXCEPT !.cache = PyDict(m), !.initialized = TRUE,
                                        !.cache_dir = ExplicitDir]]
    /\ graph_files = [d \in CacheDirs |-> NoFile]
    /\ replay = NoReplay
    /\ traced_source = "v1"
    /\ runs = <<>>
    /\ timing = NoTime
    /\ group = NoGroup
    /\ stores = NoStores
    /\ tags = NoTags
    /\ instances = 1
    /\ pos = 0
    /\ last = Event("new", FALSE, FALSE)

\* a compile request entered at t0 and left at t1
TimedCompile(graph_index, num_graphs, runtime_shape, res, t0, t1) ==
    /\ timing.now <= t0
    /\ t0 <= t1
    /\ CompileAt(graph_index, num_graphs, runtime_shape, res, t0, t1)
    /\ timing'.compilation_time <= MaxTime
    /\ UNCHANGED stores
    /\ group' = track_group(group, timing,
                            compile(backend.compiler_manager, graph_index, num_graphs,
                                    runtime_shape, res, disable_compile_cache),
                            graph_index, num_graphs, runtime_shape, t0)

TimingNext ==
    \E num_graphs \in 1..MaxGraphs, shape \in RuntimeShapes, res \in AdaptorResults,
       t0, t1 \in 0..MaxClock :
        \E graph_index \in 0..(num_graphs - 1) :
            TimedCompile(graph_index, num_graphs, shape, res, t0, t1)

SpecTiming == TimingInit /\ [][TimingNext]_vars

(***************************************************************************)
(* SpecTraced: runs of the backend on one graph, with caching enabled,     *)
(* between which the traced source file may be edited.                     *)
(***************************************************************************)
TracedInit ==
    /\ graph = FxGraph(<<[op |-> "call_function", target |-> "add"],
                         [op |-> "call_function", target |-> "attn"],
                         [op |-> "call_function", target |-> "add"]>>)
    /\ splitting_ops = {"attn"}
    /\ split_out = NoSplit
    /\ disable_compile_cache = FALSE
    /\ use_standalone_compile = FALSE
    /\ \E f \in {NoFile, PriorFile} :
           /\ cache_files = [d \in CacheDirs |-> f]
           /\ written = [d \in CacheDirs |->
                            IF f = PriorFile
                            THEN [some |-> TRUE, mapping |-> PriorMapping]
                            ELSE NothingWritten]
           /\ graph_files = [d \in CacheDirs |-> IF f = PriorFile THEN PriorDump ELSE NoFile]
    /\ replay = NoReplay
    /\ traced_source = "v1"
    /\ runs = <<>>
    /\ timing = NoTime
    /\ group = NoGroup
    /\ stores = NoStores
    /\ tags = NoTags
    /\ saved_full = [d \in CacheDirs |-> NobodySaved]
    /\ \E d \in DirChoices, u \in BOOLEAN : backend = BackendInit(d, u, use_standalone_compile)
    /\ instances = 1
    /\ pos = 0
    /\ last = Event("new", FALSE, FALSE)

TracedNext ==
    \/ \E d \in DirChoices, u \in BOOLEAN : NewBackend(d, u)
    \/ \E source \in Sources : EditTracedFile(source)
    \/ CallBegin
    \/ \E res \in AdaptorResults : CallModule(res)
    \/ CallEnd
    \/ SaveToFile

SpecTraced == TracedInit /\ [][TracedNext]_vars

(***************************************************************************)
(* SpecReplay: the callable __call__ returns under use_cudagraph with      *)
(* cudagraph_copy_inputs, built once from the example inputs and then      *)
(* called with the arguments of each run.                                  *)
(***************************************************************************)
ExampleInputs == [1..MaxArgs -> ExampleArgs]

ArgsFor(example_inputs) ==
    { args \in [1..Len(example_inputs) -> UNION { RuntimeArgs(example_inputs[p]) : p \in 1..Len(example_inputs) }] :
        \A p \in 1..Len(example_inputs) : args[p] \in RuntimeArgs(example_inputs[p]) }

ReplayInit ==
    /\ graph = FxGraph(<<>>)
    /\ splitting_ops = {"attn"}
    /\ split_out = NoSplit
    /\ instances = 1
    /\ pos = "idle"
    /\ last = NoResult
    /\ disable_compile_cache = FALSE
    /\ use_standalone_compile = FALSE
    /\ cache_files = [d \in CacheDirs |-> NoFile]
    /\ written = [d \in CacheDirs |-> NothingWritten]
    /\ saved_full = [d \in CacheDirs |-> NobodySaved]
    /\ backend = BackendInit(NoDir, FALSE, FALSE)
    /\ graph_files = [d \in CacheDirs |-> NoFile]
    /\ replay = NoReplay
    /\ traced_source = "v1"
    /\ runs = <<>>
    /\ timing = NoTime
    /\ group = NoGroup
    /\ stores = NoStores
    /\ tags = NoTags

\* the end of __call__: the buffers are allocated from the example inputs
BuildReplay(example_inputs) ==
    /\ ~ replay.made
    /\ replay' = make_input_buffers(example_inputs)
    /\ UNCHANGED <<tags, graph_files, traced_source, runs, timing, group, stores, inputs, cache_files, written, saved_full, backend,
                   split_out, instances, pos, last>>

\* one call of the returned callable
CopyAndCall(args) ==
    /\ replay.made
    /\ replay' = copy_and_call(replay, args)
    /\ UNCHANGED <<tags, graph_files, traced_source, runs, timing, group, stores, inputs, cache_files, written, saved_full, backend,
                   split_out, instances, pos, last>>

ReplayNext ==
    \/ \E example_inputs \in ExampleInputs : BuildReplay(example_inputs)
    \/ \E args \in ArgsFor(replay.example_inputs) : CopyAndCall(args)

SpecReplay == ReplayInit /\ [][ReplayNext]_vars

\* C1: after split_graph every call_function node whose target is a splitting
\* op is the only node of its partition, wherever it stands in the graph
C1_BoundaryIsolation ==
    split_out.done =>
        \A i \in DOMAIN split_out.node_to_subgraph_id :
            IsSplittingNode(graph, splitting_ops, i) =>
                /\ \A j \in DOMAIN split_out.node_to_subgraph_id :
                       split_out.node_to_subgraph_id[j] = split_out.node_to_subgraph_id[i]
                           => j = i
                /\ \E k \in 1..Len(split_out.outputs) :
                       /\ split_out.outputs[k].graph_id = split_out.node_to_subgraph_id[i]
                       /\ split_out.outputs[k].graph = <<i>>

\* a split graph with a splitting op first, two adjacent splitting ops and a
\* splitting op last, among regular nodes
C1_Witness ==
    /\ split_out.done
    /\ Len(graph) = MaxNodes + 2
    /\ IsSplittingNode(graph, splitting_ops, 2)
    /\ IsSplittingNode(graph, splitting_ops, 3)
    /\ ~ IsSplittingNode(graph, splitting_ops, 4)
    /\ IsSplittingNode(graph, splitting_ops, Len(graph) - 1)

(***************************************************************************)
(* The single-use guarantee                                                *)
(***************************************************************************)
\* C2: __call__ on an instance whose first invocation completed raises, and
\* that invocation makes no compile request and no adaptor compile
C2_SecondCallRaises ==
    [][ (backend.called /\ CallBegin) =>
            /\ last' = Event("call", TRUE, FALSE)
            /\ pos' = 0
            /\ backend'.requests = <<>>
            /\ backend'.adaptor_compiles = 0
            /\ backend'.called ]_vars

\* an instance that completed one invocation and raised on the next
C2_Witness ==
    /\ backend.called
    /\ backend.invocations = 2
    /\ last = Event("call", TRUE, FALSE)
    /\ Cardinality(DOMAIN backend.units) >= 2

(***************************************************************************)
(* Full compilations and the cache                                         *)
(***************************************************************************)
\* an invocation of __call__ has just completed
CallCompleted == last = Event("call", FALSE, FALSE)

\* the items of the split of the traced graph that are to be compiled
CompilableItems ==
    SelectSeq(split_graph(graph, splitting_ops).outputs,
              LAMBDA item : ~ item.is_splitting_graph)

\* C3 as first stated: once a backend with the same compiler has fully
\* compiled the graph with caching enabled in a directory and called
\* save_to_file, a full compilation by a new backend with that compiler and
\* directory has the adaptor compile nothing
C3_Original ==
    LET cm == backend.compiler_manager
    IN  ( /\ CallCompleted
          /\ ~ disable_compile_cache
          /\ cm.compiler \in saved_full[cm.cache_dir].full )
        => backend.adaptor_compiles = 0

\* C3: once a backend with the same compiler has fully compiled the graph
\* with caching enabled in a directory, holding a handle for every compilable
\* subgraph, and called save_to_file, a full compilation by a new backend
\* with that compiler and directory has the adaptor compile nothing: every
\* request is served by the load path
C3_SecondCompilationLoads ==
    LET cm == backend.compiler_manager
    IN  ( /\ CallCompleted
          /\ ~ disable_compile_cache
          /\ cm.compiler \in saved_full[cm.cache_dir].stored )
        => /\ backend.adaptor_compiles = 0
           /\ Len(backend.requests) = Len(CompilableItems)
           /\ \A name \in DOMAIN backend.units :
                  backend.units[name].compiled.kind = "loaded"

\* a second backend has completed, by loads alone, the compilation of a graph
\* of at least two compilable subgraphs that a first one compiled and saved
C3_Witness ==
    LET cm == backend.compiler_manager
    IN  /\ CallCompleted
        /\ ~ disable_compile_cache
        /\ instances = 2
        /\ cm.compiler \in saved_full[cm.cache_dir].stored
        /\ Len(backend.requests) >= 2
        /\ backend.adaptor_compiles = 0

\* C5: with caching disabled every completed full compilation had the adaptor
\* compile each compilable subgraph exactly once, nothing being loaded, and
\* no step writes a cache file
C5_DisabledAlwaysCompiles ==
    /\ [] ( (disable_compile_cache /\ CallCompleted) =>
               /\ backend.adaptor_compiles = Len(CompilableItems)
               /\ Len(backend.requests) = Len(CompilableItems)
               /\ \A name \in DOMAIN backend.units :
                      backend.units[name].compiled.kind = "compiled" )
    /\ [][ disable_compile_cache => cache_files' = cache_files ]_vars

\* with caching disabled a second backend has completed the compilation that
\* a first one completed, save_to_file has run, and the directory holds the
\* file of an earlier process with an entry for each of its two subgraphs
C5_Witness ==
    LET cm == backend.compiler_manager
    IN  /\ disable_compile_cache
        /\ CallCompleted
        /\ instances = 2
        /\ cm.compiler \in saved_full[cm.cache_dir].full
        /\ backend.adaptor_compiles = 2
        /\ cache_files[cm.cache_dir] = PriorFile
        /\ DynamicKeys(backend) = DOMAIN PriorMapping.d

\* C9: when the adaptor returns no callable on a miss, compile fails at once
\* (one adaptor compile, the pass ends), stores nothing and leaves the dirty
\* flag as it was
C9_FailedCompileStoresNothing ==
    [][ \A res \in AdaptorResults :
          ( /\ res.callable = NoCallable
            /\ CallModule(res)
            /\ last'.compiled )
          => /\ last'.raised
             /\ pos' = 0
             /\ backend'.adaptor_compiles = backend.adaptor_compiles + 1
             /\ backend'.compiler_manager.cache = backend.compiler_manager.cache
             /\ backend'.compiler_manager.is_cache_updated =
                    backend.compiler_manager.is_cache_updated
             /\ ~ backend'.called ]_vars

\* a pass that stored a handle for its first subgraph has failed on a later one
C9_Witness ==
    /\ last = Event("call_module", TRUE, TRUE)
    /\ pos = 0
    /\ Len(backend.requests) >= 2
    /\ backend.compiler_manager.is_cache_updated
    /\ Cardinality(DOMAIN backend.compiler_manager.cache.d) = 1

\* the request the pass makes for the i-th compilable item
ExpectedRequest(i) ==
    [ submod        |-> CompilableItems[i].submod_name,
      runtime_shape |-> PyNone,
      graph_index   |-> i - 1,
      num_graphs    |-> Len(CompilableItems) ]

\* C10: the compile requests of a pass are, in order, those for the
\* compilable items of the split item list: indices 0, 1, ... ascending, each
\* with the total k and the runtime shape None, one per item once the pass
\* has completed
C10_RequestsInOrder ==
    /\ Len(backend.requests) <= Len(CompilableItems)
    /\ \A i \in 1..Len(backend.requests) : backend.requests[i] = ExpectedRequest(i)
    /\ CallCompleted => Len(backend.requests) = Len(CompilableItems)
    /\ \A i \in 1..(Len(CompilableItems) - 1) :
           CompilableItems[i].graph_id < CompilableItems[i + 1].graph_id

\* a completed pass over a graph split into two compilable subgraphs around
\* a splitting op: the second has index 1 and partition id 2
C10_Witness ==
    /\ CallCompleted
    /\ Len(backend.requests) = 2
    /\ IsSplittingNode(graph, splitting_ops, 3)
    /\ backend.requests[2].graph_index = 1
    /\ CompilableItems[2].graph_id = 2

(***************************************************************************)
(* The CompilerManager's own contract (SpecCache, SpecRoundTrip)           *)
(***************************************************************************)
\* the key under which the live manager files (runtime_shape, graph_index)
KeyOf(graph_index, runtime_shape) ==
    CacheKey(runtime_shape, graph_index, CompilerName(backend.compiler_manager.compiler))

\* the step is compile(graph_index, 2, runtime_shape), it misses the cache
\* and the adaptor returns res, a callable with its handle
CompileMisses(graph_index, runtime_shape, res) ==
    /\ Compile(graph_index, 2, runtime_shape, res)
    /\ KeyOf(graph_index, runtime_shape) \notin DOMAIN backend.compiler_manager.cache.d
    /\ res.callable # NoCallable

\* after the step the cache maps the key to the handle and is dirty
StoredAfter(graph_index, runtime_shape, handle) ==
    LET key == KeyOf(graph_index, runtime_shape)
        cm1 == backend'.compiler_manager
    IN  /\ key \in DOMAIN cm1.cache.d
        /\ cm1.cache.d[key] = handle
        /\ cm1.is_cache_updated

\* C4 as first stated: a miss on which the adaptor returns a callable leaves
\* the key mapped to the returned handle and the cache dirty, unless caching
\* is globally disabled
C4_Original ==
    [][ \A graph_index \in 0..1, shape \in RuntimeShapes, res \in AdaptorResults :
          (CompileMisses(graph_index, shape, res) /\ ~ disable_compile_cache)
          => StoredAfter(graph_index, shape, res.handle) ]_vars

\* C4: a miss on which the adaptor returns a callable and a handle other
\* than None leaves the key mapped to that handle and the cache dirty, unless
\* caching is globally disabled
C4_MissStoresHandle ==
    [][ \A graph_index \in 0..1, shape \in RuntimeShapes, res \in AdaptorResults :
          ( /\ CompileMisses(graph_index, shape, res)
            /\ ~ disable_compile_cache
            /\ res.handle # PyNone )
          => StoredAfter(graph_index, shape, res.handle) ]_vars

\* a manager whose own cache is disabled, caching not being disabled
\* globally, has stored the handles of two misses, one for a concrete shape
C4_Witness ==
    LET cm == backend.compiler_manager
    IN  /\ last = Event("compile", FALSE, TRUE)
        /\ ~ disable_compile_cache
        /\ cm.disable_cache
        /\ cm.is_cache_updated
        /\ Cardinality(DOMAIN cm.cache.d) = 2
        /\ \E key \in DOMAIN cm.cache.d : key.e[1] = PyInt(1)

\* C6: save_to_file leaves every cache file as it is when the manager's
\* cache is disabled or not dirty; otherwise the file of its directory
\* becomes a rendering of the whole mapping, which reads back as that
\* mapping, and no other file changes
C6_SaveToFileEffect ==
    [][ (SaveToFile /\ backend.compiler_manager.initialized) =>
          LET cm  == backend.compiler_manager
              dir == cm.cache_dir
          IN  IF cm.disable_cache \/ ~ cm.is_cache_updated
              THEN cache_files' = cache_files
              ELSE /\ cache_files'[dir].exists
                   /\ cache_files'[dir].text \in Renderings(cm.cache.d)
                   /\ literal_eval(cache_files'[dir].text) = [ok |-> TRUE, v |-> cm.cache]
                   /\ \A d \in CacheDirs \ {dir} : cache_files'[d] = cache_files[d] ]_vars

\* save_to_file has put a mapping of two entries in the place of a file
\* that a write cut short had left behind
C6_Witness ==
    LET cm == backend.compiler_manager
    IN  /\ last = Event("save_to_file", FALSE, FALSE)
        /\ instances = 2
        /\ cm.is_cache_updated
        /\ ~ cm.disable_cache
        /\ Cardinality(DOMAIN cm.cache.d) = 2
        /\ cache_files[cm.cache_dir].exists
        /\ literal_eval(cache_files[cm.cache_dir].text) = [ok |-> TRUE, v |-> cm.cache]

\* C7: initialize_cache, not disabled, of a new manager on a directory whose
\* file save_to_file wrote does not raise and yields the mapping saved
C7_RoundTrip ==
    LET cm == backend.compiler_manager
    IN  ( /\ last.op = "initialize_cache"
          /\ ~ cm.disable_cache
          /\ written[cm.cache_dir].some )
        => /\ ~ last.raised
           /\ cm.cache = written[cm.cache_dir].mapping

\* a second manager has read back a mapping of two entries, one for a
\* concrete shape and one with a nested tuple for its handle
C7_Witness ==
    LET cm == backend.compiler_manager
    IN  /\ last = Event("initialize_cache", FALSE, FALSE)
        /\ instances = 2
        /\ ~ cm.disable_cache
        /\ ~ cm.is_cache_updated
        /\ written[cm.cache_dir].some
        /\ cm.cache = written[cm.cache_dir].mapping
        /\ Cardinality(DOMAIN cm.cache.d) = 2
        /\ \E key \in DOMAIN cm.cache.d : key.e[1] = PyInt(1)
        /\ \E key \in DOMAIN cm.cache.d :
               cm.cache.d[key] = PyTuple(<<PyTuple(<<PyNone, PyInt(0)>>), PyStr("path")>>)

\* the file of a directory is malformed when it exists and no completed
\* save_to_file left it: it is the text that is no literal, or the head of
\* a rendering that a write cut short
Malformed(dir) == cache_files[dir].exists /\ ~ written[dir].some

\* C8: initialize_cache, not disabled, on a malformed file raises and adopts
\* nothing; disabled, or with no file, it leaves a new manager with an empty
\* mapping
C8_InitializeCache ==
    [][ \A disable_cache \in BOOLEAN :
          InitializeCache(ExplicitDir, disable_cache) =>
            /\ (~ disable_cache /\ Malformed(ExplicitDir)) =>
                   /\ last'.raised
                   /\ backend'.compiler_manager.cache = backend.compiler_manager.cache
            /\ ( /\ disable_cache \/ ~ cache_files[ExplicitDir].exists
                 /\ ~ backend.compiler_manager.initialized ) =>
                   /\ ~ last'.raised
                   /\ backend'.compiler_manager.cache = PyDict(EmptyMap) ]_vars

\* initialize_cache of a new manager has raised on the head of a rendering
\* that a write cut short
C8_Witness ==
    /\ last = Event("initialize_cache", TRUE, FALSE)
    /\ instances = 2
    /\ Malformed(ExplicitDir)
    /\ Len(cache_files[ExplicitDir].text) >= 1
    /\ cache_files[ExplicitDir].text # NonLiteralText
    /\ backend.compiler_manager.cache = PyDict(EmptyMap)

(***************************************************************************)
(* The runtime units installed by the interpreter's pass                   *)
(***************************************************************************)
\* the items of the split of the traced graph
AllItems == split_graph(graph, splitting_ops).outputs

\* the names of the items with the given is_splitting_graph
ItemNames(splitting) ==
    { AllItems[i].submod_name :
          i \in { j \in 1..Len(AllItems) : AllItems[j].is_splitting_graph = splitting } }

\* C11: submodules that are splitting graphs are never handed to the cache
\* nor replaced; each compilable submodule the interpreter passes is replaced
\* by a unit holding the callable that compile returned for it with runtime
\* shape None, and after a completed pass every compilable submodule has its
\* unit, with its index and the total
C11_UnitsReplaceCompilable ==
    /\ [] ( /\ DOMAIN backend.units \subseteq ItemNames(FALSE)
            /\ \A i \in 1..Len(backend.requests) :
                   backend.requests[i].submod \in ItemNames(FALSE)
            /\ CallCompleted =>
                   /\ DOMAIN backend.units = ItemNames(FALSE)
                   /\ \A i \in 1..Len(CompilableItems) :
                          LET unit == backend.units[CompilableItems[i].submod_name]
                          IN  /\ unit.index = i - 1
                              /\ unit.total = Len(CompilableItems)
                              /\ unit.compiled # NoCallable )
    /\ [][ \A res \in AdaptorResults :
             (CallModule(res) /\ ~ last'.raised) =>
               LET target == backend.calls[pos]
               IN  IF target \in ItemNames(FALSE)
                   THEN /\ target \in DOMAIN backend'.units
                        /\ backend'.units[target].compiled =
                               compile(backend.compiler_manager,
                                       backend'.units[target].index,
                                       Len(CompilableItems), PyNone, res,
                                       disable_compile_cache).callable
                   ELSE /\ backend'.units = backend.units
                        /\ backend'.requests = backend.requests
                        /\ backend'.compiler_manager = backend.compiler_manager ]_vars

\* a completed pass over a graph split in three, one of them a splitting
\* graph, with one unit seeded by a load and one by the adaptor's compile
C11_Witness ==
    /\ CallCompleted
    /\ Len(AllItems) = 3
    /\ Cardinality(ItemNames(TRUE)) = 1
    /\ Cardinality(DOMAIN backend.units) = 2
    /\ \E name \in DOMAIN backend.units : backend.units[name].compiled.kind = "loaded"
    /\ \E name \in DOMAIN backend.units : backend.units[name].compiled.kind = "compiled"

(***************************************************************************)
(* The shape of the split (SpecSplit)                                      *)
(***************************************************************************)
\* C12: a graph of five call nodes of which the middle one alone is a
\* splitting op splits into three items with graph ids 0, 1, 2 in that
\* order: the first two nodes, the splitting node alone, the last two nodes;
\* the middle item alone is a splitting graph
C12_FiveNodeScenario ==
    ( /\ split_out.done
      /\ Len(graph) = 7
      /\ \A i \in 2..6 : IsSplittingNode(graph, splitting_ops, i) <=> i = 4 )
    => /\ Len(split_out.outputs) = 3
       /\ \A k \in 1..3 :
              /\ split_out.outputs[k].graph_id = k - 1
              /\ split_out.outputs[k].submod_name = SubmodName(k - 1)
              /\ split_out.outputs[k].is_splitting_graph = (k = 2)
       /\ split_out.outputs[1].graph = <<2, 3>>
       /\ split_out.outputs[2].graph = <<4>>
       /\ split_out.outputs[3].graph = <<5, 6>>

\* the split of such a graph, one of whose regular nodes is a call_method
\* with the name of the splitting op for its target
C12_Witness ==
    /\ split_out.done
    /\ Len(graph) = 7
    /\ \A i \in 2..6 : IsSplittingNode(graph, splitting_ops, i) <=> i = 4
    /\ graph[4].target = "attn"
    /\ graph[2] = Node("call_method", "attn")
    /\ Len(split_out.outputs) = 3

\* the positions of the nodes of the graph that are neither placeholders
\* nor the output
BodyPositions == { i \in 1..Len(graph) : graph[i].op \notin {"placeholder", "output"} }

\* the items' node sequences, one after the other
RECURSIVE Flatten(_, _)
Flatten(items, n) ==
    IF n = 0 THEN <<>> ELSE Flatten(items, n - 1) \o items[n].graph

\* C13: the partition ids never decrease along the original node order, so
\* each item holds a run of consecutive nodes in original order, the items
\* one after the other give back the original node sequence, and the
\* stitching module calls them in that order
C13_OrderPreserved ==
    split_out.done =>
        LET assign == split_out.node_to_subgraph_id
            items  == split_out.outputs
            all    == Flatten(items, Len(items))
        IN  /\ DOMAIN assign = BodyPositions
            /\ \A i \in DOMAIN assign : \A j \in DOMAIN assign :
                   i < j => assign[i] <= assign[j]
            /\ \A k \in 1..Len(items) :
                   /\ items[k].graph # <<>>
                   /\ \A n \in 1..(Len(items[k].graph) - 1) :
                          items[k].graph[n + 1] = items[k].graph[n] + 1
                   /\ \A n \in 1..Len(items[k].graph) :
                          assign[items[k].graph[n]] = items[k].graph_id
            /\ Len(all) = Cardinality(BodyPositions)
            /\ \A n \in 1..Len(all) : all[n] = n + 1
            /\ split_out.split_gm.calls = [k \in 1..Len(items) |-> items[k].submod_name]

\* the split of a graph in which regular nodes stand before, between and
\* after two splitting ops
C13_Witness ==
    /\ split_out.done
    /\ Len(graph) = 7
    /\ \A i \in 2..6 : IsSplittingNode(graph, splitting_ops, i) <=> i \in {3, 5}
    /\ Len(split_out.outputs) = 5
    /\ split_out.node_to_subgraph_id[6] = 4

\* no node of the graph is a splitting op
NoSplittingNode == \A i \in 1..Len(graph) : ~ IsSplittingNode(graph, splitting_ops, i)

\* C14 as first stated: the split of any graph without a splitting op is
\* one item, not a splitting graph, holding every node of the body
C14_Original ==
    (split_out.done /\ NoSplittingNode) =>
        /\ Len(split_out.outputs) = 1
        /\ ~ split_out.outputs[1].is_splitting_graph
        /\ { split_out.outputs[1].graph[n] : n \in 1..Len(split_out.outputs[1].graph) }
               = BodyPositions

\* C14: the split of a graph without a splitting op and with at least one
\* node in its body is one item, not a splitting graph, holding every node
\* of the body in order
C14_SingleItem ==
    (split_out.done /\ NoSplittingNode /\ BodyPositions # {}) =>
        /\ Len(split_out.outputs) = 1
        /\ ~ split_out.outputs[1].is_splitting_graph
        /\ split_out.outputs[1].graph_id = 0
        /\ split_out.outputs[1].graph = [n \in 1..Cardinality(BodyPositions) |-> n + 1]

\* the split of a graph of five nodes, none a splitting op although the
\* names of splitting ops are configured and one node is a call_method of
\* such a name
C14_Witness ==
    /\ split_out.done
    /\ NoSplittingNode
    /\ splitting_ops = SplitOpNames
    /\ Len(graph) = 7
    /\ \E i \in 2..6 : graph[i] = Node("call_method", "attn")
    /\ Len(split_out.outputs) = 1

(***************************************************************************)
(* The dump of the stitched graph                                          *)
(***************************************************************************)
\* C15: no step changes a computation_graph.py that is there, so a
\* directory's dump is written at most once; a run that completes in a
\* directory without one writes the rendering of its stitched graph
C15_DumpWrittenOnce ==
    [][ /\ \A d \in CacheDirs :
               graph_files[d].exists => graph_files'[d] = graph_files[d]
        /\ CallEnd =>
               LET dir == backend.compiler_manager.cache_dir
               IN  /\ graph_files'[dir].exists
                   /\ ~ graph_files[dir].exists =>
                          graph_files'[dir].text =
                              print_readable(split_graph(graph, splitting_ops).split_gm.calls,
                                             AllItems)
                   /\ \A d \in CacheDirs \ {dir} : graph_files'[d] = graph_files[d] ]_vars

\* a second run has completed in a directory that held the dump of an
\* earlier process, after a first run completed there
C15_Witness ==
    LET cm == backend.compiler_manager
    IN  /\ CallCompleted
        /\ instances = 2
        /\ cm.compiler \in saved_full[cm.cache_dir].full
        /\ graph_files[cm.cache_dir] = PriorDump
        /\ Len(backend.requests) = 2

\* position p is one whose tensor has a buffer
IsSymbolic(rp, p) == \E i \in 1..Len(rp.sym_tensor_indices) : rp.sym_tensor_indices[i] = p

\* every tensor at a symbolic position fits the buffer allocated for it
\* (a call leaves the capacities as they are)
FitsBuffers(rp) ==
    \A i \in 1..Len(rp.sym_tensor_indices) :
        Len(rp.args[rp.sym_tensor_indices[i]].data) <= Len(rp.input_buffers[i])

\* what a call that went through forwarded: prefix views at the symbolic
\* positions that hold the runtime data, the other arguments as they came
ForwardedRight(rp) ==
    /\ ~ rp.raised
    /\ Len(rp.forwarded) = Len(rp.args)
    /\ \A i \in 1..Len(rp.sym_tensor_indices) :
           LET index == rp.sym_tensor_indices[i]
               n == Len(rp.args[index].data)
           IN  /\ rp.forwarded[index] = View(i, n)
               /\ n <= Len(rp.input_buffers[i])
               /\ SubSeq(rp.input_buffers[i], 1, n) = rp.args[index].data
    /\ \A p \in 1..Len(rp.args) : ~ IsSymbolic(rp, p) => rp.forwarded[p] = rp.args[p]

\* the buffers are clones of the example inputs at the symbolic positions
BuffersSized(rp) ==
    /\ Len(rp.input_buffers) = Len(rp.sym_tensor_indices)
    /\ \A p \in 1..Len(rp.example_inputs) :
           IsSymbolic(rp, p) <=>
               rp.example_inputs[p].arg.kind = "tensor" /\ rp.example_inputs[p].symbolic
    /\ \A i \in 1..Len(rp.input_buffers) :
           Len(rp.input_buffers[i]) = Len(rp.example_inputs[rp.sym_tensor_indices[i]].arg.data)

\* a step leaves the set of buffers and the capacity of each as they are
BuffersKept ==
    replay.made =>
        /\ replay'.sym_tensor_indices = replay.sym_tensor_indices
        /\ Len(replay'.input_buffers) = Len(replay.input_buffers)
        /\ \A i \in 1..Len(replay.input_buffers) :
               Len(replay'.input_buffers[i]) = Len(replay.input_buffers[i])

\* C16 as stated: every call of copy_and_call forwards prefix views holding
\* the runtime data at the symbolic positions and the other arguments
\* unchanged, and the buffers and their capacities never change
C16_Original ==
    /\ [](replay.made => BuffersSized(replay))
    /\ [](replay.called => ForwardedRight(replay))
    /\ [][BuffersKept]_vars

\* C16: every call of copy_and_call whose tensors at the symbolic positions
\* are no longer than their buffers forwards, at each symbolic position, the
\* prefix view of the buffer that has the runtime tensor's length and data,
\* and every other argument unchanged in its position; the buffers are sized
\* from the example inputs, and their set and capacities never change
C16_ReplayForwards ==
    /\ [](replay.made => BuffersSized(replay))
    /\ [](replay.called /\ FitsBuffers(replay) => ForwardedRight(replay))
    /\ [][BuffersKept]_vars

\* a call went through that replaced a shorter tensor by a view of a
\* longer buffer and forwarded an argument that is no tensor
C16_Witness ==
    /\ replay.called
    /\ FitsBuffers(replay)
    /\ ~ replay.raised
    /\ Len(replay.forwarded) = MaxArgs
    /\ \E p, q \in 1..MaxArgs :
           /\ replay.forwarded[p].kind = "view"
           /\ replay.forwarded[p].len = 1
           /\ Len(replay.input_buffers[replay.forwarded[p].buffer]) = MaxLen
           /\ replay.input_buffers[replay.forwarded[p].buffer][1] = 1
           /\ replay.forwarded[q] = IntArg(1)

\* the last two runs had the same environment, configuration and compiler,
\* and the traced source file was edited between them
ChangedSource ==
    /\ Len(runs) = 2
    /\ runs[1].given = runs[2].given
    /\ runs[1].use_inductor = runs[2].use_inductor
    /\ runs[1].compiler = runs[2].compiler
    /\ runs[1].source # runs[2].source

\* every compile request of the run under way went to the adaptor's compile
RequestsMiss == backend.adaptor_compiles = Len(backend.requests)

\* C17 as stated: after a change of the traced source file alone the backend
\* uses another cache directory and every compile request misses
C17_Original ==
    ChangedSource => runs[2].dir # runs[1].dir /\ RequestsMiss

\* C17: for two runs with the same environment, configuration and compiler
\* and no cache directory configured, a change of the contents of the
\* traced source file makes the second run use another cache directory, and
\* its compile requests miss the cache if that directory held no cache file
C17_TracedChangeNewDir ==
    ChangedSource /\ runs[2].given = NoDir =>
        /\ runs[2].dir # runs[1].dir
        /\ ~ runs[2].had_cache => RequestsMiss

\* the first run saved its cache, the file was edited, and both requests of
\* the second run were compiled afresh in another, empty directory
C17_Witness ==
    /\ ChangedSource
    /\ runs[2].given = NoDir
    /\ ~ runs[2].had_cache
    /\ cache_files[runs[1].dir].exists
    /\ backend.compiler_manager.compiler = "InductorAdaptor"
    /\ Len(backend.requests) = 2
    /\ backend.adaptor_compiles = 2
    /\ backend.called

\* the cache key of the compile request just served
RequestKey(cm, rq) == CacheKey(rq.runtime_shape, rq.graph_index, CompilerName(cm.compiler))

\* C18: a compile request whose key (runtime_shape, graph_index, backend
\* name) the cache holds returns the callable loaded from the stored handle
\* without a call of the adaptor's compile and leaves the cache, the dirty
\* flag and compilation_time as they are; a request whose key the cache does
\* not hold, whatever it holds under another name or shape, is no hit
C18_HitLeavesStateAlone ==
    [][ LET cm  == backend.compiler_manager
            rq  == group'.request
            key == RequestKey(cm, rq)
        IN  IF key \in DOMAIN cm.cache.d
            THEN /\ rq.callable = LoadedFn(cm.cache.d[key])
                 /\ ~ last'.compiled
                 /\ ~ last'.raised
                 /\ backend'.compiler_manager.cache = cm.cache
                 /\ backend'.compiler_manager.is_cache_updated = cm.is_cache_updated
                 /\ timing'.compilation_time = timing.compilation_time
            ELSE /\ last'.compiled
                 /\ rq.callable.kind # "loaded" ]_vars

\* the last subgraph of a group was loaded some time after the group's
\* start, from a cache that holds an entry of another backend as well
C18_Witness ==
    /\ group.asked
    /\ ~ last.compiled
    /\ group.request.callable.kind = "loaded"
    /\ group.request.graph_index = group.request.num_graphs - 1
    /\ timing.now > timing.compilation_start_time
    /\ timing.compilation_time = 0
    /\ \E k \in DOMAIN backend.compiler_manager.cache.d :
           k.e[3] # PyStr(CompilerName(backend.compiler_manager.compiler))

\* C19 as stated: whatever the operations on a manager, no key is stored
\* into its mapping a second time
C19_Original ==
    ~ stores.again

\* C19: over the compile, load and save operations that follow one
\* initialize_cache of a manager, up to the next, each cache key is stored
\* into the mapping at most once, and the mapping holds the one handle
\* stored for each of these keys
C19_StoredOncePerInitialize ==
    LET cm == backend.compiler_manager
    IN  /\ ~ stores.again_since_init
        /\ \A key \in stores.since_init :
               /\ key \in DOMAIN cm.cache.d
               /\ cm.cache.d[key] \in Handles \ {PyNone}

\* two keys were stored after initialize_cache, and a request for one of
\* them was then served from the mapping
C19_Witness ==
    /\ Cardinality(stores.since_init) = 2
    /\ ~ stores.again_since_init
    /\ last.op = "compile"
    /\ ~ last.compiled

\* every subgraph of the group under way has been compiled
GroupDone == group.open /\ group.next = group.request.num_graphs

ItemIds == { split_out.outputs[k].graph_id : k \in 1..Len(split_out.outputs) }

\* the body node before position i, if there is one, is a splitting op too
FollowsSplittingOrFirst(i) ==
    i - 1 \notin BodyPositions \/ IsSplittingNode(graph, splitting_ops, i - 1)

\* C21: an item of split_graph is a splitting graph exactly when its
\* graph_id is odd; splitting ops get odd ids and the other nodes even ids;
\* the graph ids of the items increase strictly; and the even id before a
\* splitting op's id is missing from the items exactly when that op is the
\* first node of the body or comes right after another splitting op
C21_OddIdsAreSplitting ==
    split_out.done =>
        LET assign == split_out.node_to_subgraph_id
            items  == split_out.outputs
        IN  /\ \A k \in 1..Len(items) :
                   items[k].is_splitting_graph <=> items[k].graph_id % 2 = 1
            /\ \A i \in DOMAIN assign :
                   IsSplittingNode(graph, splitting_ops, i) <=> assign[i] % 2 = 1
            /\ \A k \in 1..(Len(items) - 1) : items[k].graph_id < items[k + 1].graph_id
            /\ ItemIds = { assign[i] : i \in DOMAIN assign }
            /\ \A i \in DOMAIN assign :
                   IsSplittingNode(graph, splitting_ops, i) =>
                       (assign[i] - 1 \notin ItemIds <=> FollowsSplittingOrFirst(i))

\* a split with a splitting op first and two adjacent splitting ops later:
\* the ids 0 and 4 are skipped, the items have the ids 1, 2, 3, 5
C21_Witness ==
    /\ split_out.done
    /\ Len(graph) = 6
    /\ \A i \in 2..5 : IsSplittingNode(graph, splitting_ops, i) <=> i \in {2, 4, 5}
    /\ ItemIds = {1, 2, 3, 5}
    /\ Len(split_out.outputs) = 4


(***************************************************************************)
(* A second invocation of a single-use backend                             *)
(***************************************************************************)
\* __call__ is reached at any time on the clock, torch.compile having been
\* started no later; the accumulator is followed up to MaxTime
RecallBegin ==
    \E t \in timing.now..MaxClock, torch_compile_start_time \in 0..MaxClock :
        /\ torch_compile_start_time <= t
        /\ timing.compilation_time + (t - torch_compile_start_time) <= MaxTime
        /\ CallBeginAt(t, torch_compile_start_time)

RecallNext ==
    \/ RecallBegin
    \/ \E res \in AdaptorResults : CallModule(res)
    \/ CallEnd
    \/ SaveToFile

SpecRecall == TracedInit /\ [][RecallNext]_vars

\* the step is an invocation of __call__ on an instance that has completed
\* one, which the single-use assertion rejects
RejectedCall ==
    /\ pos = 0
    /\ backend.called
    /\ backend'.invocations = backend.invocations + 1
    /\ last' = Event("call", TRUE, FALSE)

\* C22: a rejected second invocation of __call__ leaves the in-memory cache
\* mapping, the dirty flag, the compilation_time accumulator, the traced-file
\* set and the stitched graph as they were before the call
C22_Original ==
    [][ RejectedCall =>
            /\ backend'.compiler_manager.cache = backend.compiler_manager.cache
            /\ backend'.compiler_manager.is_cache_updated
                   = backend.compiler_manager.is_cache_updated
            /\ timing'.compilation_time = timing.compilation_time
            /\ backend'.traced_files = backend.traced_files
            /\ backend'.calls = backend.calls
            /\ backend'.piecewise_graphs = backend.piecewise_graphs ]_vars

\* what the rejected invocation does keep: the dirty flag, the traced-file
\* set and the stitched graph
C22_RejectedCallKeeps ==
    [][ RejectedCall =>
            /\ backend'.compiler_manager.is_cache_updated
                   = backend.compiler_manager.is_cache_updated
            /\ backend'.traced_files = backend.traced_files
            /\ backend'.calls = backend.calls
            /\ backend'.piecewise_graphs = backend.piecewise_graphs
            /\ backend'.called ]_vars

\* the rejected invocation changes the mapping only by re-reading the file
C22_MappingOnlyFromFile ==
    [][ (RejectedCall
            /\ backend'.compiler_manager.cache # backend.compiler_manager.cache) =>
            /\ cache_files[backend.cache_dir].exists
            /\ ~disable_compile_cache ]_vars

\* an instance was called again after its stores, and the rejected call has
\* dropped entries of the mapping and added to the accumulator
C22_Witness ==
    /\ backend.called
    /\ backend.invocations = 2
    /\ last = Event("call", TRUE, FALSE)
    /\ backend.compiler_manager.is_cache_updated
    /\ timing.compilation_time > 0
    /\ Len(backend.calls) > 0

(***************************************************************************)
(* set_model_tag blocks                                                    *)
(***************************************************************************)
\* `with set_model_tag(tag):` is entered
EnterModelTag(tag) ==
    LET r == set_model_tag_enter(tags, tag)
    IN  /\ pos = 0
        /\ Len(tags.blocks) < MaxDepth
        /\ tags' = IF r.raised
                   THEN [r.tags EXCEPT !.asked = tag]
                   ELSE [r.tags EXCEPT !.asked = tag,
                                       !.open = Append(@, [tag |-> tag,
                                                           before |-> tags.model_tag])]
        /\ last' = Event("set_model_tag", r.raised, FALSE)
        /\ UNCHANGED <<graph_files, replay, traced_source, runs, timing, group, stores,
                       inputs, cache_files, written, saved_full, backend, instances, pos>>

\* the innermost open block ends, normally or by an exception
ExitModelTag(exc) ==
    /\ pos = 0
    /\ Len(tags.blocks) > 0
    /\ tags' = [set_model_tag_exit(tags, exc) EXCEPT
                    !.open = SubSeq(@, 1, Len(@) - 1)]
    /\ last' = Event("exit_model_tag", exc, FALSE)
    /\ UNCHANGED <<graph_files, replay, traced_source, runs, timing, group, stores,
                   inputs, cache_files, written, saved_full, backend, instances, pos>>

\* VllmBackend.__init__ with the given prefix
TaggedBackend(prefix, cache_dir, use_inductor) ==
    /\ pos = 0
    /\ backend' = BackendInit(cache_dir, use_inductor, use_standalone_compile)
    /\ tags' = [tags EXCEPT !.prefix = prefix_or_model_tag(prefix, tags.model_tag)]
    /\ last' = Event("new", FALSE, FALSE)
    /\ UNCHANGED <<graph_files, replay, traced_source, runs, timing, group, stores,
                   inputs, cache_files, written, saved_full, instances, pos>>

TagNext ==
    \/ \E tag \in Tags : EnterModelTag(tag)
    \/ \E exc \in BOOLEAN : ExitModelTag(exc)
    \/ \E prefix \in Prefixes, d \in DirChoices, u \in BOOLEAN : TaggedBackend(prefix, d, u)

SpecTag == TracedInit /\ [][TagNext]_vars

\* C23: set_model_tag(tag) with tag the active tag raises and changes
\* nothing; otherwise tag is the active tag while its block is the innermost
\* open one, and the end of the block, normal or by an exception, restores
\* the tag that was active at its entry; with no block open the active tag
\* is the one from before the outermost entry
C23_TagScoped ==
    /\ [](Len(tags.open) = Len(tags.blocks))
    /\ [](IF tags.open = <<>> THEN tags.model_tag = DefaultTag
          ELSE tags.model_tag = tags.open[Len(tags.open)].tag)
    /\ [](\A k \in 1..Len(tags.open) :
             tags.open[k].before = IF k = 1 THEN DefaultTag ELSE tags.open[k - 1].tag)
    /\ [][ last'.op = "set_model_tag" =>
              /\ last'.raised <=> tags'.asked = tags.model_tag
              /\ last'.raised => /\ tags'.model_tag = tags.model_tag
                                 /\ tags'.blocks = tags.blocks
              /\ ~ last'.raised => /\ tags'.model_tag = tags'.asked
                                   /\ Len(tags'.blocks) = Len(tags.blocks) + 1 ]_vars
    /\ [][ last'.op = "exit_model_tag" =>
              /\ tags'.model_tag = tags.open[Len(tags.open)].before
              /\ Len(tags'.blocks) = Len(tags.blocks) - 1 ]_vars

\* a block nested in another ended by an exception and the outer block's tag
\* is active again
C23_Witness ==
    /\ last = Event("exit_model_tag", TRUE, FALSE)
    /\ Len(tags.open) = 1
    /\ tags.model_tag = "eagle_head"
    /\ tags.asked = "draft"

\* the active tag itself was asked for, and the call raised with the block
\* of the outer tag still open
C23_RejectWitness ==
    /\ last = Event("set_model_tag", TRUE, FALSE)
    /\ Len(tags.open) = 2
    /\ tags.asked = tags.model_tag
====
